---- MODULE Spec2Model ----
(***************************************************************************)
(* Model of the benchmark harness of wasm-ml-benchmark                     *)
(* (src/scripts/benchmark.c, the second program of that file, lines        *)
(* 62-472): the metric block parser, the running-average accumulator, the  *)
(* CSV sinks, the iteration driver and the summary reporter.               *)
(*                                                                         *)
(* Text is modelled as sequences of one-character strings.  A line of the  *)
(* captured output is a record [marks, text]: marks is the set of          *)
(* recognised substrings (phase headers, metric labels, the terminator)    *)
(* that strstr() finds in the line, text is what follows the metric label. *)
(* A C float is an IEEE 754 binary32 value, a record [cls, neg, m, e], and  *)
(* every float operation rounds as the machine does; a C long is a sign    *)
(* and the decimal digits of its magnitude, in 64 bits; an int is a machine *)
(* integer of 32 bits. Conversions between text and numbers (atoi, atol,   *)
(* the "%f" and "%9s" of sscanf, the "%.3f" and "%ld" of printf) are        *)
(* computed character by character as the C library of the build does.     *)
(***************************************************************************)
EXTENDS Integers, Sequences, FiniteSets, TLC

VARIABLES
    argv,            \* the argument vector, argv[1] is the program name
    pc,              \* position of main()
    exit_status,     \* -1 while running, else the value main() returned
    num_iterations,  \* main: int num_iterations (0 until check_args sets it)
    enableStackTrace,\* main: bool enableStackTrace
    i,               \* main: loop variable of the iteration loop
    current_count,   \* main: int current_count
    avg,             \* the eight avg_*_metrics, by phase
    dirs,            \* directories created by mkdir: subset of {"date","time"}
    csv_open,        \* phases whose CSV FILE* is open
    csv,             \* content of each phase's CSV file: sequence of lines
    csv_before,      \* history: what each phase's CSV file held when the run began
    scratch,         \* content of stats_summary.txt
    fp,              \* main: FILE *fp of the iteration: 0 = none, else next line to read
    open_fps,        \* number of scratch-file handles opened and not closed
    runs,            \* history: the calls of system(command): [iter, status]
    console,         \* history: phases printed by print_metrics, in order
    seen,            \* history: per phase, the blocks handed to parse_metrics_block
    scratch_of,      \* history: the iteration whose command wrote scratch (0: none, or the report)
    stats_saved,     \* history: save_metrics_stats opened the file and wrote the report
    acc_in,          \* accumulator harness: the blocks to feed, in order
    acc_alt,         \* accumulator harness: the same blocks in another order
    acc_k,           \* accumulator harness: number of blocks fed so far
    acc_a,           \* accumulator harness: average after feeding acc_in[1..acc_k]
    acc_b,           \* accumulator harness: average after feeding acc_alt[1..acc_k]
    blk_x,           \* block harness: the block last parsed, its lines in file order
    blk_y,           \* block harness: the same block with its lines in another order
    blk_k,           \* block harness: number of blocks parsed so far
    blk_a,           \* block harness: result of parse_metrics_block on blk_x
    blk_b,           \* block harness: result of parse_metrics_block on blk_y
    unit_in,         \* line harness: the metric line given: [label, num, unit, glued, eol]
    unit_out,        \* line harness: the parser state after the line
    tool,            \* which other program runs: "build", "runner" or "none"
    tool_pc,         \* build / runner: position of its main()
    tool_exit,       \* build / runner: -1 while running, else the exit status
    tool_cwd,        \* build / runner: the working directory
    tool_files,      \* build: the files present in ./binaries
    tool_log,        \* build / runner: history of the steps made: [step, status]
    number_iterations, \* runner: int number_iterations
    tool_i           \* runner: loop variable of main

vars == <<argv, pc, exit_status, num_iterations, enableStackTrace, i, current_count,
          avg, dirs, csv_open, csv, csv_before, scratch, fp, open_fps, runs, console, seen,
          stats_saved, scratch_of, acc_in, acc_alt, acc_k, acc_a, acc_b, blk_x, blk_y, blk_k, blk_a, blk_b,
          unit_in, unit_out, tool, tool_pc, tool_exit, tool_cwd, tool_files, tool_log,
          number_iterations, tool_i>>

mainVars == <<argv, pc, exit_status, num_iterations, enableStackTrace, i, current_count,
              avg, dirs, csv_open, csv, csv_before, scratch, fp, open_fps, runs, console,
              seen, stats_saved, scratch_of>>

accVars == <<acc_in, acc_alt, acc_k, acc_a, acc_b, blk_x, blk_y, blk_k, blk_a, blk_b,
             unit_in, unit_out, tool, tool_pc, tool_exit, tool_cwd, tool_files, tool_log,
             number_iterations, tool_i>>

feedVars == <<acc_in, acc_alt, acc_k, acc_a, acc_b>>

blkVars == <<blk_x, blk_y, blk_k, blk_a, blk_b>>

unitVars == <<unit_in, unit_out>>

toolVars == <<tool, tool_pc, tool_exit, tool_cwd, tool_files, tool_log, number_iterations,
              tool_i>>

----------------------------------------------------------------------------
(* Bounds of the model *)

\* largest num_iterations the model runs
MaxIter == 3

\* longest sequence of samples fed to the accumulator harness
MaxFeed == 3

\* largest max_rss sample fed to the accumulator harness
MaxRss == 3

\* most blocks of a phase parsed before the block the block harness parses
MaxBlk == 2

\* largest number_iterations the command runner is started with
MaxRunnerIter == 3

\* most commands run from the last iteration of the longest run on
MaxLate == 2

----------------------------------------------------------------------------
(* Characters and machine integers *)

DigitChars == <<"0", "1", "2", "3", "4", "5", "6", "7", "8", "9">>

IsDigit(c) == \E k \in 1..10 : DigitChars[k] = c

DigitVal(c) == (CHOOSE k \in 1..10 : DigitChars[k] = c) - 1

\* the vertical tab, a byte that a string here has no escape for
VerticalTab == "\\013"

\* isspace() in the C locale: space, \t, \n, \v, \f, \r
IsSpace(c) == c \in {" ", "\t", "\n", "\r", "\f", VerticalTab}

\* first position >= p of s that holds no white space (Len(s)+1 at the end)
SkipSpace(s, p) ==
    CHOOSE q \in p..(Len(s) + 1) :
        (q > Len(s) \/ ~IsSpace(s[q])) /\ \A j \in p..(q - 1) : IsSpace(s[j])

\* a sign character at position p, and the position after it
IsNeg(s, p) == p <= Len(s) /\ s[p] = "-"
AfterSign(s, p) == IF p <= Len(s) /\ s[p] \in {"-", "+"} THEN p + 1 ELSE p

Signed(neg, v) == IF neg THEN 0 - v ELSE v

Abs(x) == IF x < 0 THEN 0 - x ELSE x

\* INT_MIN, whose magnitude is no machine integer
IntMin == 0 - 2147483647 - 1

IntMax == 2147483647

\* n + 1 and n - 1 in int: beyond INT_MAX and INT_MIN the result is undefined
\* in C; the build's machine instructions wrap
IntInc(n) == IF n = IntMax THEN IntMin ELSE n + 1

IntDec(n) == IF n = IntMin THEN IntMax ELSE n - 1

PowersOfTwo ==
    <<1, 2, 4, 8, 16, 32, 64, 128, 256, 512, 1024, 2048, 4096, 8192, 16384, 32768, 65536,
      131072, 262144, 524288, 1048576, 2097152, 4194304, 8388608, 16777216, 33554432,
      67108864, 134217728, 268435456, 536870912, 1073741824>>

\* 2^k for k in 0..30
Pow2(k) == PowersOfTwo[k + 1]

\* the number of binary digits of a natural number
BitLen(n) == Cardinality({k \in 1..31 : PowersOfTwo[k] <= n})

----------------------------------------------------------------------------
(* Natural numbers of any size: their decimal digits, the most significant
   first, without a leading zero (zero is the empty sequence). A machine
   integer here has 32 bits; a C long and the decimal digits of a float need
   more. Carries are passed by halving the digits, not digit after digit. *)

\* the number of zeros a begins with
LeadZeros(a) ==
    CHOOSE n \in 0..Len(a) : (n = Len(a) \/ a[n + 1] # 0) /\ \A j \in 1..n : a[j] = 0

Trim(a) == SubSeq(a, LeadZeros(a) + 1, Len(a))

\* the number of zeros a ends with
TailZeros(a) ==
    CHOOSE n \in 0..Len(a) :
        (n = Len(a) \/ a[Len(a) - n] # 0) /\ \A j \in (Len(a) - n + 1)..Len(a) : a[j] = 0

\* a fraction's digits without its trailing zeros
RTrim(a) == SubSeq(a, 1, Len(a) - TailZeros(a))

Zeros(n) == [j \in 1..n |-> 0]

\* a with zeros before it to make it n digits wide
Pad(a, n) == Zeros(n - Len(a)) \o a

RECURSIVE NatOf(_)
\* the digits of a machine integer n >= 0
NatOf(n) == IF n = 0 THEN <<>> ELSE Append(NatOf(n \div 10), n % 10)

RECURSIVE IntOf(_, _)
\* the machine integer of the digits a[1..n], which must fit
IntOf(a, n) == IF n = 0 THEN 0 ELSE 10 * IntOf(a, n - 1) + a[n]

\* the machine integer of the digits a, nine at most
Small(a) == IntOf(a, Len(a))

RECURSIVE Carry(_, _, _, _), CarryLeft(_, _, _, _)
\* the places v[lo..hi], each holding any integer, brought to digits, with c
\* carried in from the right: [d, c], the digits and what is carried out;
\* places that hold digits stay as they are when nothing is carried in
Carry(v, lo, hi, c) ==
    IF c = 0 /\ \A j \in lo..hi : v[j] \in 0..9
    THEN [d |-> [j \in 1..(hi - lo + 1) |-> v[lo + j - 1]], c |-> 0]
    ELSE IF lo > hi THEN [d |-> <<>>, c |-> c]
    ELSE IF lo = hi THEN [d |-> <<(v[lo] + c) % 10>>, c |-> (v[lo] + c) \div 10]
    ELSE CarryLeft(v, lo, (lo + hi) \div 2, Carry(v, (lo + hi) \div 2 + 1, hi, c))

CarryJoin(L, R) == [d |-> L.d \o R.d, c |-> L.c]

CarryLeft(v, lo, mid, R) == CarryJoin(Carry(v, lo, mid, R.c), R)

\* the digits a times k <= 2^27, as wide as a: [d, c]
Times(a, k) == Carry([j \in 1..Len(a) |-> a[j] * k], 1, Len(a), 0)

CarriedOut(x) == Trim(NatOf(x.c) \o x.d)

\* a * k for a machine integer 0 <= k <= 2^27; at once when a has four
\* digits at most and k sixteen binary digits
NatMul(a, k) ==
    IF Len(a) <= 4 /\ k < 65536 THEN NatOf(Small(a) * k) ELSE CarriedOut(Times(a, k))

RECURSIVE Quot(_, _, _, _, _), QuotRight(_, _, _, _, _)
\* long division of the digits a[lo..hi] by k <= 2^27, with r carried in from
\* the left: [q, r]
Quot(a, k, lo, hi, r) ==
    IF lo > hi THEN [q |-> <<>>, r |-> r]
    ELSE IF lo = hi THEN [q |-> <<(r * 10 + a[lo]) \div k>>, r |-> (r * 10 + a[lo]) % k]
    ELSE QuotRight(a, k, (lo + hi) \div 2 + 1, hi, Quot(a, k, lo, (lo + hi) \div 2, r))

QuotJoin(L, R) == [q |-> L.q \o R.q, r |-> R.r]

QuotRight(a, k, lo, hi, L) == QuotJoin(L, Quot(a, k, lo, hi, L.r))

QuotOut(x) == [q |-> Trim(x.q), r |-> x.r]

\* a divided by a machine integer 0 < k <= 2^27: [q, r]; at once when a is
\* a machine integer
NatDiv(a, k) ==
    IF Len(a) <= 9 THEN [q |-> NatOf(Small(a) \div k), r |-> Small(a) % k]
    ELSE QuotOut(Quot(a, k, 1, Len(a), 0))

NatAddN(a, b, n) ==
    CarriedOut(Carry([j \in 1..n |-> Pad(a, n)[j] + Pad(b, n)[j]], 1, n, 0))

\* a + b; at once when both are machine integers
NatAdd(a, b) ==
    IF Len(a) <= 9 /\ Len(b) <= 9 THEN NatOf(Small(a) + Small(b))
    ELSE NatAddN(a, b, IF Len(a) > Len(b) THEN Len(a) ELSE Len(b))

\* a - b for a >= b; at once when a is a machine integer
NatSub(a, b) ==
    IF Len(a) <= 9 THEN NatOf(Small(a) - Small(b))
    ELSE Trim(Carry([j \in 1..Len(a) |-> a[j] - Pad(b, Len(a))[j]], 1, Len(a), 0).d)

NatLess(a, b) ==
    \/ Len(a) < Len(b)
    \/ /\ Len(a) = Len(b)
       /\ \E j \in 1..Len(a) : a[j] < b[j] /\ \A h \in 1..(j - 1) : a[h] = b[h]

\* a * k for a machine integer k >= 0, in two halves of k when it is large
NatTimes(a, k) ==
    IF k <= 134217728 THEN NatMul(a, k)
    ELSE NatAdd(NatMul(NatMul(a, k \div 65536), 65536), NatMul(a, k % 65536))

\* how many times b can be taken from r (nine times at most)
NatFits(r, b) == CHOOSE n \in 0..9 : ~NatLess(r, NatMul(b, n)) /\ NatLess(r, NatMul(b, n + 1))

\* b taken n times from r: [q, r]
NatTaken(r, b, n) == [q |-> <<n>>, r |-> NatSub(r, NatMul(b, n))]

NatTake(r, b) == NatTaken(r, b, NatFits(r, b))

RECURSIVE QuotBy(_, _, _, _, _), QuotByRight(_, _, _, _, _)
\* long division of the digits a[lo..hi] by b # 0 of any size, with r carried
\* in from the left: [q, r]
QuotBy(a, b, lo, hi, r) ==
    IF lo > hi THEN [q |-> <<>>, r |-> r]
    ELSE IF lo = hi THEN NatTake(Trim(Append(r, a[lo])), b)
    ELSE QuotByRight(a, b, (lo + hi) \div 2 + 1, hi, QuotBy(a, b, lo, (lo + hi) \div 2, r))

QuotByRight(a, b, lo, hi, L) == QuotJoin(L, QuotBy(a, b, lo, hi, L.r))

\* a divided by b # 0 of any size: [q, r]
NatOver(a, b) == QuotOut(QuotBy(a, b, 1, Len(a), <<>>))

RECURSIVE NatShl(_, _)
\* a * 2^n
NatShl(a, n) ==
    IF n = 0 \/ a = <<>> THEN a
    ELSE IF n >= 24 THEN NatShl(NatMul(a, 16777216), n - 24)
    ELSE NatMul(a, Pow2(n))

PowersOfFive == <<1, 5, 25, 125, 625, 3125, 15625, 78125, 390625, 1953125, 9765625>>

RECURSIVE NatMulPow5(_, _)
\* a * 5^n
NatMulPow5(a, n) ==
    IF n = 0 \/ a = <<>> THEN a
    ELSE IF n >= 10 THEN NatMulPow5(NatMul(a, 9765625), n - 10)
    ELSE NatMul(a, PowersOfFive[n + 1])

\* digits as characters
Chars(a) == [j \in 1..Len(a) |-> DigitChars[a[j] + 1]]

\* the decimal text of a natural number, "0" for zero
NatText(a) == IF a = <<>> THEN <<"0">> ELSE Chars(a)

\* the position after the decimal digits that s holds from position p
DigitsEnd(s, p) ==
    CHOOSE q \in p..(Len(s) + 1) :
        (q > Len(s) \/ ~IsDigit(s[q])) /\ \A j \in p..(q - 1) : IsDigit(s[j])

DigitsTo(s, p, q) == [digs |-> [j \in 1..(q - p) |-> DigitVal(s[p + j - 1])], pos |-> q]

\* the decimal digits of s from position p: [digs, pos]
ScanNat(s, p) == DigitsTo(s, p, DigitsEnd(s, p))

----------------------------------------------------------------------------
(* C long (64 bits) and int (32 bits) *)

\* a long: its sign and its magnitude (zero is never negative)
LongOf(neg, mag) == [neg |-> neg /\ mag # <<>>, mag |-> mag]

LongZero == LongOf(FALSE, <<>>)

\* 2^31 and 2^63
Two31 == <<2, 1, 4, 7, 4, 8, 3, 6, 4, 8>>
Two63 == <<9, 2, 2, 3, 3, 7, 2, 0, 3, 6, 8, 5, 4, 7, 7, 5, 8, 0, 8>>

\* strtol's result for a sign and digits: LONG_MAX or LONG_MIN when out of range
StrToL(neg, mag) ==
    IF NatLess(mag, Two63) THEN LongOf(neg, mag)
    ELSE IF neg THEN LongOf(TRUE, Two63)
    ELSE LongOf(FALSE, NatSub(Two63, <<1>>))

\* strtol(s, NULL, 10) from the first character p0 that is no white space
StrToLAt(s, p0) == StrToL(IsNeg(s, p0), Trim(ScanNat(s, AfterSign(s, p0)).digs))

\* atol(): white space, an optional sign, then digits; 0 when there are none
Atol(s) == StrToLAt(s, SkipSpace(s, 1))

RECURSIVE NatLow(_, _), NatLowStep(_, _)
\* a mod 65536^n, through n divisions by 65536
NatLow(a, n) == IF n = 0 \/ a = <<>> THEN <<>> ELSE NatLowStep(NatDiv(a, 65536), n)

NatLowStep(d, n) == NatAdd(NatMul(NatLow(d.q, n - 1), 65536), NatOf(d.r))

\* the two's complement value of the unsigned u, half being 2^(width - 1)
Unsigned(u, half) ==
    IF NatLess(u, half) THEN LongOf(FALSE, u) ELSE LongOf(TRUE, NatSub(NatAdd(half, half), u))

\* a signed number of any size wrapped to 16n bits
WrapTo(x, n, half) ==
    IF ~x.neg THEN Unsigned(NatLow(x.mag, n), half)
    ELSE IF NatLow(x.mag, n) = <<>> THEN LongZero
    ELSE Unsigned(NatSub(NatAdd(half, half), NatLow(x.mag, n)), half)

\* a number wrapped to 64 bits: long arithmetic that overflows is undefined
\* in C; the build's machine instructions wrap
WrapLong(x) == IF NatLess(x.mag, Two63) THEN x ELSE WrapTo(x, 4, Two63)

\* the machine integer of a number wrapped to 32 bits
IntOfWrapped(w) ==
    IF w.neg /\ w.mag = Two31 THEN IntMin ELSE Signed(w.neg, IntOf(w.mag, Len(w.mag)))

\* (int) of a long: its low 32 bits
IntOfLong(x) ==
    IF Len(x.mag) <= 9 THEN Signed(x.neg, IntOf(x.mag, Len(x.mag)))
    ELSE IntOfWrapped(WrapTo(x, 2, Two31))

\* atoi from the first character p0 that is no white space: (int) strtol(..),
\* which is what the C library of the build does where the C standard leaves
\* the value of an out-of-range number undefined
AtoiAt(s, p0) == IntOfLong(StrToLAt(s, p0))

\* atoi(): white space, an optional sign, then digits; 0 when there are none
Atoi(s) == AtoiAt(s, SkipSpace(s, 1))

\* (long) k
LongOfInt(k) == IF k = IntMin THEN LongOf(TRUE, Two31) ELSE LongOf(k < 0, NatOf(Abs(k)))

\* k is a machine integer of at most 2^27 in magnitude
IsSmall(k) == 0 - 134217728 <= k /\ k <= 134217728

\* the sum of two signed numbers of any size
SignedAdd(a, b) ==
    IF a.neg = b.neg THEN LongOf(a.neg, NatAdd(a.mag, b.mag))
    ELSE IF NatLess(a.mag, b.mag) THEN LongOf(b.neg, NatSub(b.mag, a.mag))
    ELSE LongOf(a.neg, NatSub(a.mag, b.mag))

\* the product of a machine integer and a signed number of any size
SignedMulInt(k, a) ==
    IF k = IntMin THEN LongOf(~a.neg, NatMul(NatMul(a.mag, 65536), 32768))
    ELSE LongOf((k < 0) # a.neg, NatTimes(a.mag, Abs(k)))

\* the quotient, truncated toward zero, of a signed number by k # 0
SignedDivInt(a, k) ==
    IF IsSmall(k) THEN LongOf((k < 0) # a.neg, NatDiv(a.mag, Abs(k)).q)
    ELSE LongOf((k < 0) # a.neg, NatOver(a.mag, LongOfInt(k).mag).q)

\* long + long and int * long in 64 bits
LongAdd(a, b) == WrapLong(SignedAdd(a, b))
LongMulInt(k, a) == WrapLong(SignedMulInt(k, a))

\* what a division gives that the processor does not carry out: the process
\* gets the signal and dies
SigFpe == [signal |-> "SIGFPE"]

\* LONG_MIN
LongMin == LongOf(TRUE, Two63)

\* long / int: the divide instruction of the build traps on a divisor of 0
\* and on LONG_MIN / -1, whose quotient is no long
LongDivInt(a, k) ==
    IF k = 0 \/ (k = 0 - 1 /\ a = LongMin) THEN SigFpe ELSE WrapLong(SignedDivInt(a, k))

SignText(neg) == IF neg THEN <<"-">> ELSE <<>>

\* printf("%ld")
LongText(x) == SignText(x.neg) \o NatText(x.mag)

----------------------------------------------------------------------------
(* C float: IEEE 754 binary32, every operation rounded to nearest, ties to
   even. A finite value is m * 2^e with m odd and below 2^24, or m = 0. *)

\* how many times 2 divides m, for 0 < m <= 2^24
TwosIn(m) == Cardinality({k \in 1..24 : m % Pow2(k) = 0})

Finite(neg, m, e) ==
    IF m = 0 THEN [cls |-> "fin", neg |-> neg, m |-> 0, e |-> 0]
    ELSE [cls |-> "fin", neg |-> neg, m |-> m \div Pow2(TwosIn(m)), e |-> e + TwosIn(m)]

Inf(neg) == [cls |-> "inf", neg |-> neg, m |-> 0, e |-> 0]

NaN(neg) == [cls |-> "nan", neg |-> neg, m |-> 0, e |-> 0]

FZero == Finite(FALSE, 0, 0)

\* q * 2^e for q <= 2^24, infinite beyond FLT_MAX
Ranged(neg, q, e) ==
    IF e > 104 \/ (e = 104 /\ q >= 16777216) THEN Inf(neg) ELSE Finite(neg, q, e)

\* quotient q, remainder r against the half h, st: something lies below r
RoundUp(q, r, h, st) == r > h \/ (r = h /\ (st \/ q % 2 = 1))

\* M * 2^(ep - s) rounded at 2^ep, s >= 1
Shifted(neg, M, s, st, ep) ==
    IF s > 30 THEN Finite(neg, 0, 0)
    ELSE Ranged(neg,
                (M \div Pow2(s))
                  + (IF RoundUp(M \div Pow2(s), M % Pow2(s), Pow2(s - 1), st) THEN 1 ELSE 0),
                ep)

RoundAt(neg, M, E, st, ep) ==
    IF ep <= E THEN Ranged(neg, M * Pow2(E - ep), ep) ELSE Shifted(neg, M, ep - E, st, ep)

\* the float nearest to (M + f) * 2^E, where 0 < f < 1 when st and f = 0
\* when not; M is a machine integer, of 25 bits at least when st
Round(neg, M, E, st) ==
    IF M = 0 THEN Finite(neg, 0, 0)
    ELSE RoundAt(neg, M, E, st,
                 IF E + BitLen(M) - 24 > 0 - 149 THEN E + BitLen(M) - 24 ELSE 0 - 149)

\* (float) k
IntToFloat(k) == IF k = IntMin THEN Finite(TRUE, 1, 31) ELSE Round(k < 0, Abs(k), 0, FALSE)

\* the exponent above the leading bit
Top(x) == x.e + BitLen(x.m)

\* m * 2^d cut to an integer: [m, st]
Aligned(m, d) ==
    IF d >= 0 THEN [m |-> m * Pow2(d), st |-> FALSE]
    ELSE IF d < 0 - 30 THEN [m |-> 0, st |-> TRUE]
    ELSE [m |-> m \div Pow2(0 - d), st |-> m % Pow2(0 - d) # 0]

\* big + small with big = MA * 2^EA, MA of 28 bits, and small = (b.m + ..) * 2^EA
AddAligned(big, small, MA, EA, b) ==
    IF big.neg = small.neg THEN Round(big.neg, MA + b.m, EA, b.st)
    ELSE IF MA = b.m /\ ~b.st THEN FZero
    ELSE IF MA >= b.m THEN Round(big.neg, MA - b.m - (IF b.st THEN 1 ELSE 0), EA, b.st)
    ELSE Round(small.neg, b.m - MA, EA, FALSE)

AddOrdered(big, small) ==
    AddAligned(big, small, big.m * Pow2(28 - BitLen(big.m)), Top(big) - 28,
               Aligned(small.m, small.e - (Top(big) - 28)))

AddFinite(a, b) ==
    IF a.m = 0 /\ b.m = 0 THEN Finite(a.neg /\ b.neg, 0, 0)
    ELSE IF a.m = 0 THEN b
    ELSE IF b.m = 0 THEN a
    ELSE IF Top(a) >= Top(b) THEN AddOrdered(a, b)
    ELSE AddOrdered(b, a)

\* a + b
FloatAdd(a, b) ==
    IF a.cls = "nan" THEN a
    ELSE IF b.cls = "nan" THEN b
    ELSE IF a.cls = "inf" THEN (IF b.cls = "inf" /\ a.neg # b.neg THEN NaN(TRUE) ELSE a)
    ELSE IF b.cls = "inf" THEN b
    ELSE AddFinite(a, b)

\* (hi * 2^24 + lo) * 2^E with hi >= 32, cut to 28 bits
MulCut(neg, hi, lo, E, t) ==
    Round(neg, hi * Pow2(24 - t) + lo \div Pow2(t), E + t, lo % Pow2(t) # 0)

MulLimbs(neg, hi, lo, E) == MulCut(neg, hi, lo, E, BitLen(hi) - 4)

\* (hh * 2^24 + mid * 2^12 + ll) * 2^E
MulWide(neg, hh, mid, ll, E) ==
    MulLimbs(neg, hh + mid \div 4096 + (ll + (mid % 4096) * 4096) \div 16777216,
             (ll + (mid % 4096) * 4096) % 16777216, E)

MulFinite(neg, a, b) ==
    IF BitLen(a.m) + BitLen(b.m) <= 30 THEN Round(neg, a.m * b.m, a.e + b.e, FALSE)
    ELSE MulWide(neg, (a.m \div 4096) * (b.m \div 4096),
                 (a.m \div 4096) * (b.m % 4096) + (a.m % 4096) * (b.m \div 4096),
                 (a.m % 4096) * (b.m % 4096), a.e + b.e)

\* a * b
FloatMul(a, b) ==
    IF a.cls = "nan" THEN a
    ELSE IF b.cls = "nan" THEN b
    ELSE IF a.cls = "inf" \/ b.cls = "inf"
         THEN (IF (a.cls = "fin" /\ a.m = 0) \/ (b.cls = "fin" /\ b.m = 0) THEN NaN(TRUE)
               ELSE Inf(a.neg # b.neg))
    ELSE MulFinite(a.neg # b.neg, a, b)

RECURSIVE DivBits(_, _, _, _)
\* the quotient's binary digits, six at a time and two at a time at the end,
\* until it has 27 of them or the division ends: [q, r, n], n the digits
\* after the binary point
DivBits(q, r, d, n) ==
    IF r = 0 \/ q >= 67108864 THEN [q |-> q, r |-> r, n |-> n]
    ELSE IF q < 16777216 THEN DivBits(64 * q + (64 * r) \div d, (64 * r) % d, d, n + 6)
    ELSE DivBits(4 * q + (4 * r) \div d, (4 * r) % d, d, n + 2)

DivRound(neg, x, E) == Round(neg, x.q, E - x.n, x.r # 0)

\* a / b
FloatDiv(a, b) ==
    IF a.cls = "nan" THEN a
    ELSE IF b.cls = "nan" THEN b
    ELSE IF a.cls = "inf" THEN (IF b.cls = "inf" THEN NaN(TRUE) ELSE Inf(a.neg # b.neg))
    ELSE IF b.cls = "inf" THEN Finite(a.neg # b.neg, 0, 0)
    ELSE IF b.m = 0 THEN (IF a.m = 0 THEN NaN(TRUE) ELSE Inf(a.neg # b.neg))
    ELSE DivRound(a.neg # b.neg, DivBits(a.m \div b.m, a.m % b.m, b.m, 0), a.e - b.e)

----------------------------------------------------------------------------
(* Text to float, the "%f" of sscanf, and float to text, the "%.kf" of printf *)

\* a letter without its case
Lower(c) ==
    CASE c = "A" -> "a" [] c = "B" -> "b" [] c = "C" -> "c" [] c = "D" -> "d"
      [] c = "E" -> "e" [] c = "F" -> "f" [] c = "I" -> "i" [] c = "N" -> "n"
      [] c = "P" -> "p" [] c = "T" -> "t" [] c = "X" -> "x" [] c = "Y" -> "y"
      [] OTHER -> c

HexChars == <<"0", "1", "2", "3", "4", "5", "6", "7", "8", "9", "a", "b", "c", "d", "e", "f">>

IsHex(c) == \E k \in 1..16 : HexChars[k] = Lower(c)

HexVal(c) == (CHOOSE k \in 1..16 : HexChars[k] = Lower(c)) - 1

\* the position after the hexadecimal digits that s holds from position p
HexEnd(s, p) ==
    CHOOSE q \in p..(Len(s) + 1) :
        (q > Len(s) \/ ~IsHex(s[q])) /\ \A j \in p..(q - 1) : IsHex(s[j])

HexTo(s, p, q) == [digs |-> [j \in 1..(q - p) |-> HexVal(s[p + j - 1])], pos |-> q]

\* the hexadecimal digits of s from position p: [digs, pos]
ScanHexDigits(s, p) == HexTo(s, p, HexEnd(s, p))

\* the word w (in small letters) stands at position p of s, in either case
WordAt(s, p, w) == p + Len(w) - 1 <= Len(s) /\ \A j \in 1..Len(w) : Lower(s[p + j - 1]) = w[j]

\* the character c (a small letter, a point) stands at position p of s
CharAt(s, p, c) == p <= Len(s) /\ Lower(s[p]) = c

\* the value of the digits d, 1000000 when it is that or more
ClampVal(d) == IF Len(Trim(d)) > 6 THEN 1000000 ELSE IntOf(Trim(d), Len(Trim(d)))

RECURSIVE LimbsOf(_), LimbsOfStep(_)
\* the binary digits of the integer a, 24 at a time, the highest first
LimbsOf(a) == IF a = <<>> THEN <<>> ELSE LimbsOfStep(NatDiv(a, 16777216))

LimbsOfStep(d) == Append(LimbsOf(d.q), d.r)

\* how many binary digits to take after M so that it has 30 at most
MoreBits(M) == IF BitLen(M) <= 6 THEN 24 ELSE 30 - BitLen(M)

\* t of the 24 binary digits of l[2] taken after l[1]; the others are dropped
TopTwo(l, t) ==
    [m  |-> l[1] * Pow2(t) + l[2] \div Pow2(24 - t),
     e  |-> 24 * (Len(l) - 1) - t,
     st |-> l[2] % Pow2(24 - t) # 0 \/ \E j \in 3..Len(l) : l[j] # 0]

\* the integer with the limbs l as (m + ..) * 2^e: [m, e, st]; m has 25 binary
\* digits or more when any was dropped
TopLimbs(l) ==
    IF l = <<>> THEN [m |-> 0, e |-> 0, st |-> FALSE]
    ELSE IF Len(l) = 1 THEN [m |-> l[1], e |-> 0, st |-> FALSE]
    ELSE TopTwo(l, MoreBits(l[1]))

RECURSIVE AccFrac(_, _, _, _, _), AccFracTo(_, _, _, _, _, _)
\* the binary digits of the decimal fraction 0.F (F ends with no zero) taken
\* after M until M has 27 of them, at most n times
AccFrac(F, M, E, st, n) ==
    IF F = <<>> THEN [m |-> M, e |-> E, st |-> st]
    ELSE IF M >= 67108864 \/ E > 0 \/ n = 0 THEN [m |-> M, e |-> E, st |-> TRUE]
    ELSE AccFracTo(Times(F, Pow2(MoreBits(M))), M, E, st, n, MoreBits(M))

\* x = F * 2^t: the digits carried out of the fraction are t binary digits more
AccFracTo(x, M, E, st, n, t) == AccFrac(RTrim(x.d), M * Pow2(t) + x.c, E - t, st, n - 1)

RoundAcc(neg, r) == Round(neg, r.m, r.e, r.st)

FracAfter(neg, a, F) == RoundAcc(neg, AccFrac(RTrim(F), a.m, a.e, a.st, 12))

\* the float nearest to I + 0.F; I is taken at once when it is a machine integer
DecParts(neg, I, F) ==
    IF Len(I) <= 9 THEN FracAfter(neg, [m |-> Small(I), e |-> 0, st |-> FALSE], F)
    ELSE FracAfter(neg, TopLimbs(LimbsOf(I)), F)

\* the float nearest to 0.D * 10^pp for digits D that begin with no zero
DecPoint(neg, D, pp) ==
    IF D = <<>> THEN Finite(neg, 0, 0)
    ELSE IF pp > 40 THEN Inf(neg)
    ELSE IF pp < 0 - 50 THEN Finite(neg, 0, 0)
    ELSE IF pp <= 0 THEN DecParts(neg, <<>>, Zeros(0 - pp) \o D)
    ELSE IF pp >= Len(D) THEN DecParts(neg, D \o Zeros(pp - Len(D)), <<>>)
    ELSE DecParts(neg, SubSeq(D, 1, pp), SubSeq(D, pp + 1, Len(D)))

\* strtof of the decimal digits D with the point after the first pp of them
DecToFloat(neg, D, pp) == DecPoint(neg, Trim(D), pp - LeadZeros(D))

RECURSIVE HexInt(_, _)
\* the machine integer of the hexadecimal digits h[1..n], at most seven
HexInt(h, n) == IF n = 0 THEN 0 ELSE 16 * HexInt(h, n - 1) + h[n]

\* the hexadecimal digits H (no zero first) as (m + ..) * 2^e: [m, e, st]
TopHex(H) ==
    IF Len(H) <= 7 THEN [m |-> HexInt(H, Len(H)), e |-> 0, st |-> FALSE]
    ELSE [m |-> HexInt(H, 7), e |-> 4 * (Len(H) - 7), st |-> \E j \in 8..Len(H) : H[j] # 0]

HexRound(neg, r, E) == Round(neg, r.m, r.e + E, r.st)

\* strtof of the hexadecimal digits H, nfrac of them after the point, times 2^pexp
HexToFloat(neg, H, nfrac, pexp) == HexRound(neg, TopHex(Trim(H)), pexp - 4 * nfrac)

NoFloat(p0) == [ok |-> FALSE, val |-> FZero, pos |-> p0]

GotFloat(v, p) == [ok |-> TRUE, val |-> v, pos |-> p]

\* an exponent: its letter at p, an optional sign, digits (0 when there is none)
ExpOf(neg, ed) ==
    [val |-> IF ed.digs = <<>> THEN 0 ELSE Signed(neg, ClampVal(ed.digs)), pos |-> ed.pos]

ScanExp(s, p) == ExpOf(IsNeg(s, p + 1), ScanNat(s, AfterSign(s, p + 1)))

NoExp(p) == [val |-> 0, pos |-> p]

NoDigits(p) == [digs |-> <<>>, pos |-> p]

ScanDecEnd(neg, ip, fr, ex) ==
    GotFloat(DecToFloat(neg, ip.digs \o fr.digs, Len(ip.digs) + ex.val), ex.pos)

ScanDecFrac(s, p0, neg, ip, fr) ==
    IF ip.digs = <<>> /\ fr.digs = <<>> THEN NoFloat(p0)
    ELSE ScanDecEnd(neg, ip, fr,
                    IF CharAt(s, fr.pos, "e") THEN ScanExp(s, fr.pos) ELSE NoExp(fr.pos))

\* a decimal number: digits, a point, digits, an exponent; a digit at least
ScanDec(s, p0, neg, ip) ==
    ScanDecFrac(s, p0, neg, ip,
                IF CharAt(s, ip.pos, ".") THEN ScanNat(s, ip.pos + 1) ELSE NoDigits(ip.pos))

ScanHexEnd(neg, ip, fr, ex) ==
    GotFloat(HexToFloat(neg, ip.digs \o fr.digs, Len(fr.digs), ex.val), ex.pos)

ScanHexFrac(s, p0, neg, h, ip, fr) ==
    IF fr.pos = h THEN NoFloat(p0)
    ELSE ScanHexEnd(neg, ip, fr,
                    IF (ip.digs # <<>> \/ fr.digs # <<>>) /\ CharAt(s, fr.pos, "p")
                    THEN ScanExp(s, fr.pos) ELSE NoExp(fr.pos))

\* a hexadecimal number from position h, after "0x": digits, a point, digits,
\* and a binary exponent when there was a digit; a digit or a point at least
ScanHex(s, p0, neg, h, ip) ==
    ScanHexFrac(s, p0, neg, h, ip,
                IF CharAt(s, ip.pos, ".") THEN ScanHexDigits(s, ip.pos + 1)
                ELSE NoDigits(ip.pos))

\* the number after its sign, at position q
ScanFloatFrom(s, p0, neg, q) ==
    IF WordAt(s, q, <<"n", "a", "n">>) THEN GotFloat(NaN(neg), q + 3)
    ELSE IF WordAt(s, q, <<"i", "n", "f">>)
         THEN (IF ~CharAt(s, q + 3, "i") THEN GotFloat(Inf(neg), q + 3)
               ELSE IF WordAt(s, q + 3, <<"i", "n", "i", "t", "y">>)
                    THEN GotFloat(Inf(neg), q + 8)
               ELSE NoFloat(p0))
    ELSE IF WordAt(s, q, <<"0", "x">>) THEN ScanHex(s, p0, neg, q + 2, ScanHexDigits(s, q + 2))
    ELSE ScanDec(s, p0, neg, ScanNat(s, q))

ScanFloatAt(s, p0) == ScanFloatFrom(s, p0, IsNeg(s, p0), AfterSign(s, p0))

\* "%f": white space, then the longest text that begins a number, converted
\* by strtof. [ok, val, pos]: ok is FALSE on a matching failure.
ScanFloat(s, p) == ScanFloatAt(s, SkipSpace(s, p))

\* the last n digits of P as the fraction, those before as the integer part
DecSplit(P, n) == [int |-> SubSeq(P, 1, Len(P) - n), frac |-> SubSeq(P, Len(P) - n + 1, Len(P))]

\* the exact decimal digits of a finite float: m * 2^e is m * 5^(-e) / 10^(-e)
Decimal(x) ==
    IF x.e >= 0 /\ Top(x) <= 30 THEN [int |-> NatOf(x.m * Pow2(x.e)), frac |-> <<>>]
    ELSE IF x.e >= 0 THEN [int |-> NatShl(NatOf(x.m), x.e), frac |-> <<>>]
    ELSE IF x.e >= 0 - 10 /\ x.m <= 2147483647 \div PowersOfFive[1 - x.e]
         THEN DecSplit(Pad(NatOf(x.m * PowersOfFive[1 - x.e]), 0 - x.e), 0 - x.e)
    ELSE DecSplit(Pad(NatMulPow5(NatOf(x.m), 0 - x.e), 0 - x.e), 0 - x.e)

\* the digits rest are cut after kept: up when they are above a half, or a
\* half and kept is odd
CutUp(kept, rest) ==
    \/ rest[1] > 5
    \/ /\ rest[1] = 5
       /\ \/ \E j \in 2..Len(rest) : rest[j] # 0
          \/ kept # <<>> /\ kept[Len(kept)] % 2 = 1

CutAt(kept, rest) == IF CutUp(kept, rest) THEN NatAdd(Trim(kept), <<1>>) ELSE Trim(kept)

\* the digits of d * 10^k rounded to an integer
FixedDigits(d, k) ==
    IF Len(d.frac) <= k THEN Trim(d.int \o d.frac \o Zeros(k - Len(d.frac)))
    ELSE CutAt(d.int \o SubSeq(d.frac, 1, k), SubSeq(d.frac, k + 1, Len(d.frac)))

\* digits a, at least k + 1 of them, with a point before the last k
PointText(a, k) ==
    Chars(SubSeq(a, 1, Len(a) - k)) \o <<".">> \o Chars(SubSeq(a, Len(a) - k + 1, Len(a)))

\* printf("%.kf") for k >= 1; a value below 2^-(4k+1) is below half of 10^-k
Fixed(x, k) ==
    IF x.cls = "inf" THEN SignText(x.neg) \o <<"i", "n", "f">>
    ELSE IF x.cls = "nan" THEN SignText(x.neg) \o <<"n", "a", "n">>
    ELSE IF x.m = 0 \/ Top(x) < 0 - 4 * k
         THEN SignText(x.neg) \o <<"0", ".">> \o [j \in 1..k |-> "0"]
    ELSE SignText(x.neg) \o PointText(Pad(FixedDigits(Decimal(x), k), k + 1), k)

----------------------------------------------------------------------------
(* The text format: phases, headers, labels *)

\* the eight phases, in the order main() tests their headers
PhaseOrder == <<"loadmodel", "readimg", "redbox", "readimg_green",
                "inference", "postprocessing", "greenbox", "total">>

Phases == {PhaseOrder[k] : k \in 1..Len(PhaseOrder)}

\* the header substring main() looks for, by phase
HeaderOf == [p \in Phases |->
    CASE p = "loadmodel"      -> "loadmodel Metrics"
      [] p = "readimg"        -> "readimg Metrics"
      [] p = "redbox"         -> "RED BOX Phase Metrics"
      [] p = "readimg_green"  -> "Pre-processing Metrics"
      [] p = "inference"      -> "Inference Metrics"
      [] p = "postprocessing" -> "Post-processing Metrics"
      [] p = "greenbox"       -> "GREEN BOX Phase Metrics"
      [] p = "total"          -> "Total Metrics"]

\* the five metric labels, in the order parse_metrics_block tests them
LabelOrder == <<"Wall Clock Time:", "User time:", "System time:", "CPU Usage:", "Max RSS:">>

Labels == {LabelOrder[k] : k \in 1..Len(LabelOrder)}

Terminator == "======================================="

\* strstr(line, needle) != NULL
Contains(line, needle) == needle \in line.marks

\* Metrics zeroed: memset(out, 0, sizeof(Metrics)) and Metrics avg = {0}
ZeroMetrics == [user_time |-> FZero, system_time |-> FZero, cpu_usage |-> FZero,
                wall_clock |-> FZero, max_rss |-> LongZero]

----------------------------------------------------------------------------
(* The metric lines: parse_time_line, parse_cpu_line, parse_rss *)

RECURSIVE TakeToken(_, _, _)
\* at most w characters of s from p, up to the next white space
TakeToken(s, p, w) ==
    IF w = 0 \/ p > Len(s) \/ IsSpace(s[p]) THEN <<>>
    ELSE <<s[p]>> \o TakeToken(s, p + 1, w - 1)

\* "%9s": white space, then at most nine characters that are not white space
ScanUnit(s, p) == TakeToken(s, SkipSpace(s, p), 9)

\* the unit strings parse_time_line compares with
UnitS == <<"s">>
UnitSec == <<"s", "e", "c">>
\* the bytes of the source literal: C3 82 C2 B5 's' (a twice-encoded micro sign)
UnitMicroLiteral == <<"\\303", "\\202", "\\302", "\\265", "s">>
UnitMicroseconds == <<"m", "i", "c", "r", "o", "s", "e", "c", "o", "n", "d", "s">>

\* lines 99-102: the number scaled by its unit
ScaleByUnit(number, unit) ==
    IF unit = UnitS \/ unit = UnitSec THEN FloatMul(number, IntToFloat(1000))
    ELSE IF unit = UnitMicroLiteral \/ unit = UnitMicroseconds
         THEN FloatDiv(number, IntToFloat(1000))
    ELSE number

\* lines 96-105 with f the result of the "%f" conversion
TimeValue(line, val, f) ==
    IF ~f.ok THEN val ELSE ScaleByUnit(f.val, ScanUnit(line.text, f.pos))

\* parse_time_line, called on a line that holds the prefix: the new *val
\* (val itself when sscanf converts nothing and the function returns 0)
ParseTimeLine(line, val) == TimeValue(line, val, ScanFloat(line.text, 1))

\* parse_cpu_line: the number, 0.0 when sscanf converts nothing
ParseCpuLine(line) == ScanFloat(line.text, 1).val

\* parse_rss: atol of what follows "Max RSS:"
ParseRss(line) == Atol(line.text)

----------------------------------------------------------------------------
(* The running average and the block parser *)

\* calculate_new_average with the old average weighted once too often
CalculateNewAverageOverweighted(old_avg, currentCount, current_value) ==
    IF currentCount = 0 THEN current_value
    ELSE FloatDiv(FloatAdd(FloatMul(IntToFloat(IntInc(currentCount)), old_avg), current_value),
                  IntToFloat(IntInc(currentCount)))

\* calculate_new_average(old_avg, currentCount, current_value): the int factors
\* are converted to float and each operation rounds to float
CalculateNewAverage(old_avg, currentCount, current_value) ==
    IF currentCount = 0 THEN current_value
    ELSE FloatDiv(FloatAdd(FloatMul(IntToFloat(currentCount), old_avg), current_value),
                  IntToFloat(IntInc(currentCount)))

\* the max_rss update with the count of calculate_new_average's callers
RssAverageShifted(old_avg, currentCount, rss) ==
    LongDivInt(LongAdd(LongMulInt(currentCount, old_avg), rss), IntInc(currentCount))

\* the max_rss update of line 179, in C long arithmetic: a long, or SigFpe
RssAverage(old_avg, currentCount, rss) ==
    LongDivInt(LongAdd(LongMulInt(IntDec(currentCount), old_avg), rss), currentCount)

\* lines 154-156, 160-162, 166-168, 172-174, 178-180 with v the parsed value:
\* st = [out, avg, found, stop, trap]
FoundWall(st, v, currentCount) ==
    [st EXCEPT !.out.wall_clock = v,
               !.avg.wall_clock = CalculateNewAverage(@, IntDec(currentCount), v),
               !.found = @ + 1]

\* the User time branch merging the block's wall clock value (a copied line)
FoundUserCopied(st, v, currentCount) ==
    [st EXCEPT !.out.user_time = v,
               !.avg.user_time = CalculateNewAverage(@, IntDec(currentCount), st.out.wall_clock),
               !.found = @ + 1]

FoundUser(st, v, currentCount) ==
    [st EXCEPT !.out.user_time = v,
               !.avg.user_time = CalculateNewAverage(@, IntDec(currentCount), v),
               !.found = @ + 1]

FoundSystem(st, v, currentCount) ==
    [st EXCEPT !.out.system_time = v,
               !.avg.system_time = CalculateNewAverage(@, IntDec(currentCount), v),
               !.found = @ + 1]

FoundCpu(st, v, currentCount) ==
    [st EXCEPT !.out.cpu_usage = v,
               !.avg.cpu_usage = CalculateNewAverage(@, IntDec(currentCount), v),
               !.found = @ + 1]

\* lines 178-180 with a what line 179 computes: when the division traps the
\* process dies there, inside parse_metrics_block
RssFound(st, v, a) ==
    IF a = SigFpe THEN [st EXCEPT !.out.max_rss = v, !.stop = TRUE, !.trap = TRUE]
    ELSE [st EXCEPT !.out.max_rss = v, !.avg.max_rss = a, !.found = @ + 1]

FoundRss(st, v, currentCount) ==
    RssFound(st, v, RssAverage(st.avg.max_rss, currentCount, v))

\* one pass of the while loop of parse_metrics_block on a line that was read
BlockLine(line, st, currentCount) ==
    IF Contains(line, "Wall Clock Time:")
        THEN FoundWall(st, ParseTimeLine(line, st.out.wall_clock), currentCount)
    ELSE IF Contains(line, "User time:")
        THEN FoundUser(st, ParseTimeLine(line, st.out.user_time), currentCount)
    ELSE IF Contains(line, "System time:")
        THEN FoundSystem(st, ParseTimeLine(line, st.out.system_time), currentCount)
    ELSE IF Contains(line, "CPU Usage:")
        THEN FoundCpu(st, ParseCpuLine(line), currentCount)
    ELSE IF Contains(line, "Max RSS:")
        THEN FoundRss(st, ParseRss(line), currentCount)
    ELSE IF Contains(line, Terminator) THEN [st EXCEPT !.stop = TRUE]
    ELSE st

\* the state of the parser when its loop ends with the stream at line p
BlockEnd(st, p) ==
    [out |-> st.out, avg |-> st.avg, found |-> st.found, pos |-> p, trap |-> st.trap]

RECURSIVE BlockLoop(_, _, _, _)
\* after line p was handled, giving nx: break, or read on
BlockStep(lines, p, nx, currentCount) ==
    IF nx.stop THEN BlockEnd(nx, p + 1) ELSE BlockLoop(lines, p + 1, nx, currentCount)

\* the while loop of parse_metrics_block from line p of the stream:
\* [out, avg, found, pos, trap], pos the next line the stream would give, trap
\* whether the process was killed in the loop
BlockLoop(lines, p, st, currentCount) ==
    IF p > Len(lines) THEN BlockEnd(st, p)
    ELSE BlockStep(lines, p, BlockLine(lines[p], st, currentCount), currentCount)

\* line 188: the value parse_metrics_block returns for a number of label lines found
BlockAccepted(found) == found = 5

BlockResult(r) ==
    [out |-> r.out, avg |-> r.avg, found |-> r.found, pos |-> r.pos, trap |-> r.trap,
     ret |-> ~r.trap /\ BlockAccepted(r.found)]

\* parse_metrics_block(fp, out, avg_metrics, currentCount) with the stream at
\* line p: [out, avg, found, pos, trap, ret]; no value is returned when trap
ParseMetricsBlock(lines, p, avg_metrics, currentCount) ==
    BlockResult(BlockLoop(lines, p,
                          [out |-> ZeroMetrics, avg |-> avg_metrics, found |-> 0,
                           stop |-> FALSE, trap |-> FALSE],
                          currentCount))

----------------------------------------------------------------------------
(* The CSV sink *)

\* write_csv_header: the line it prints
CsvHeader == "user_time,system_time,cpu_percent,wallclock_time,max_rss"

\* write_csv: the row "%.3f,%.3f,%.2f%%,%.3f,%ld", the line without its "\n"
CsvRow(m) ==
    Fixed(m.user_time, 3) \o <<",">> \o Fixed(m.system_time, 3) \o <<",">>
      \o Fixed(m.cpu_usage, 2) \o <<"%", ",">> \o Fixed(m.wall_clock, 3) \o <<",">>
      \o LongText(m.max_rss)

----------------------------------------------------------------------------
(* Inputs: lines, blocks and captured outputs *)

UnitMs == <<"m", "s">>

\* text " <n>" or " <n> <unit>" following a label
NumText(n, unit) ==
    <<" ">> \o NatText(NatOf(n)) \o (IF unit = <<>> THEN <<>> ELSE <<" ">> \o unit)

MetricLine(label, text) == [marks |-> {label}, text |-> text]

HeaderLine(p) == [marks |-> {HeaderOf[p]}, text |-> <<>>]

TermLine == [marks |-> {Terminator}, text |-> <<>>]

\* a line that holds none of the recognised substrings
NoiseLine == [marks |-> {}, text |-> <<"o", "k">>]

WallLine(t) == MetricLine("Wall Clock Time:", NumText(t, UnitMs))
UserLine(t) == MetricLine("User time:", NumText(t + 1, UnitMs))
SysLine(t)  == MetricLine("System time:", NumText(t + 2, UnitMs))
CpuLine(t)  == MetricLine("CPU Usage:", NumText(t + 3, <<>>))
RssLine(r)  == MetricLine("Max RSS:", NumText(r, <<>>))

\* the end of a line written with a carriage return before the line feed
CrLf == <<"\r", "\n">>

\* the five metric lines of a sample as another tool writes them: lines that
\* end in CR LF, a time in seconds, a time with an exponent, one in
\* hexadecimal, a CPU usage of three decimals, a max_rss beyond LONG_MAX
ForeignLines ==
    <<MetricLine("Wall Clock Time:", <<" ", "0", ".", "0", "2", " ", "s">> \o CrLf),
      MetricLine("User time:", <<" ", "1", "e", "1", " ", "m", "s">> \o CrLf),
      MetricLine("System time:", <<" ", "0", "x", "1", "p", "3", " ", "m", "s">> \o CrLf),
      MetricLine("CPU Usage:", <<" ", "0", ".", "0", "1", "5">> \o CrLf),
      MetricLine("Max RSS:",
                 <<" ", "9", "9", "9", "9", "9", "9", "9", "9", "9", "9", "9", "9", "9", "9",
                   "9", "9", "9", "9", "9", "9", " ", "K", "B">> \o CrLf)>>

\* the five metric lines of a sample with times from t and max_rss r
FieldLines(t, r) == <<WallLine(t), UserLine(t), SysLine(t), CpuLine(t), RssLine(r)>>

\* a complete, terminated block of phase p
FullBlock(p, t, r) == <<HeaderLine(p)>> \o FieldLines(t, r) \o <<TermLine>>

\* s without its k-th element
Without(s, k) == SubSeq(s, 1, k - 1) \o SubSeq(s, k + 1, Len(s))

\* a terminated block of phase p that lacks its k-th metric line
MissingBlock(p, t, r, k) == <<HeaderLine(p)>> \o Without(FieldLines(t, r), k) \o <<TermLine>>

\* the outputs the external command is let to produce in the model
Outputs ==
    { <<>>,
      FullBlock("inference", 10, 3),
      \* the block of section 8 of the specification
      <<HeaderLine("inference"),
        MetricLine("Wall Clock Time:", <<" ", "1", "2", ".", "5", "0", "0", " ", "m", "s">>),
        MetricLine("User time:", <<" ", "1", "0", ".", "0", "0", "0", " ", "m", "s">>),
        MetricLine("System time:", <<" ", "2", ".", "0", "0", "0", " ", "m", "s">>),
        MetricLine("CPU Usage:", <<" ", "9", "6", ".", "0", "0">>),
        MetricLine("Max RSS:", <<" ", "4", "0", "9", "6", "0">>),
        TermLine>>,
      \* a block without Max RSS
      MissingBlock("inference", 30, 5, 5),
      \* Wall Clock Time twice and no Max RSS: five label lines
      <<HeaderLine("inference"), WallLine(30), WallLine(40), UserLine(30), SysLine(30),
        CpuLine(30), TermLine>>,
      \* all five fields and User time once more: six label lines
      <<HeaderLine("inference")>> \o FieldLines(10, 3) \o <<UserLine(10), TermLine>>,
      \* the five fields in another order, noise between, no terminator
      <<NoiseLine, HeaderLine("inference"), RssLine(3), CpuLine(10), NoiseLine, SysLine(10),
        UserLine(10), WallLine(10)>>,
      \* two phases, the second written by another tool
      FullBlock("loadmodel", 10, 3) \o <<HeaderLine("total")>> \o ForeignLines \o <<TermLine>>,
      \* the same phase twice
      FullBlock("inference", 10, 3) \o FullBlock("inference", 20, 0),
      \* a malformed block, then a complete one of the same phase
      <<HeaderLine("inference"), WallLine(30), TermLine>> \o FullBlock("inference", 20, 0),
      \* a block that is not terminated before the next header
      <<HeaderLine("loadmodel"), WallLine(30)>> \o FullBlock("inference", 10, 3) }

\* a directory that holds no CSV file
NoFiles == [p \in Phases |-> <<>>]

\* the row of the earlier run
OldRow == <<"1", ".", "0", "0", "0", ",", "2", ".", "0", "0", "0", ",", "3", ".", "0", "0", "%",
            ",", "4", ".", "0", "0", "0", ",", "5">>

\* what the run's directory can hold of an earlier run that began in the same
\* second (mkdir's EEXIST is accepted): nothing, the inference file of a run
\* that wrote one row, a total file with one line
FilesBefore ==
    { NoFiles,
      [p \in Phases |-> IF p = "inference" THEN <<CsvHeader, OldRow>> ELSE <<>>],
      [p \in Phases |-> IF p = "total" THEN <<"old line">> ELSE <<>>] }

\* the argument vectors of the runs the model starts in a directory that holds
\* files already
RerunArgs == { <<"benchmark", <<"1">>, <<"0">>>>, <<"benchmark", <<"2">>, <<"0">>>> }

\* the argument vectors the model starts from (argv[0] first), bounded by MaxIter
ArgVectors ==
    { a \in { <<"benchmark">>,
              <<"benchmark", <<"2">>>>,
              <<"benchmark", <<"0">>, <<"0">>>>,
              <<"benchmark", <<"-", "1">>, <<"0">>>>,
              <<"benchmark", <<"a">>, <<"1">>>>,
              <<"benchmark", <<>>, <<"1">>>>,
              <<"benchmark", <<"1">>, <<"0">>>>,
              <<"benchmark", <<"1", "a">>, <<"1">>>>,
              <<"benchmark", <<"2">>, <<"x">>>>,
              <<"benchmark", <<"3">>, <<"0">>>>,
              <<"benchmark", <<"4">>, <<"0">>>>,
              \* 2^31 and 2^32 + 1: numbers that no int holds
              <<"benchmark", <<"2", "1", "4", "7", "4", "8", "3", "6", "4", "8">>, <<"0">>>>,
              <<"benchmark", <<"4", "2", "9", "4", "9", "6", "7", "2", "9", "7">>, <<"0">>>>,
              <<"benchmark", <<"2">>, <<"0">>, <<"1">>>> } :
        Len(a) = 3 => Atoi(a[2]) <= MaxIter }

----------------------------------------------------------------------------
(* main() of the benchmark *)

\* argc, and argv[k] as C numbers it
Argc == Len(argv)
Arg(k) == argv[k + 1]

\* check_args: [ret, num_iterations, enableStackTrace] (a field keeps the
\* caller's value when check_args returns before setting it)
CheckArgsResult ==
    IF Argc # 3 THEN [ret |-> 1, n |-> num_iterations, st |-> enableStackTrace]
    ELSE IF Atoi(Arg(1)) <= 0 THEN [ret |-> 1, n |-> Atoi(Arg(1)), st |-> enableStackTrace]
    ELSE [ret |-> 0, n |-> Atoi(Arg(1)), st |-> Atoi(Arg(2)) # 0]

\* return k from main
Exit(k) == /\ pc' = "exit"
           /\ exit_status' = k

\* lines 300-303
CheckArgs ==
    /\ pc = "check_args"
    /\ num_iterations' = CheckArgsResult.n
    /\ enableStackTrace' = CheckArgsResult.st
    /\ IF CheckArgsResult.ret # 0 THEN Exit(1)
       ELSE pc' = "mkdir_date" /\ UNCHANGED exit_status
    /\ UNCHANGED <<argv, csv_before, stats_saved, scratch_of, i, current_count, avg, dirs, csv_open, csv, scratch, fp,
                   open_fps, runs, console, seen, accVars>>

\* lines 314-318: mkdir(date); failed is mkdir() == -1 with errno other than EEXIST
MkdirDate ==
    /\ pc = "mkdir_date"
    /\ \E failed \in BOOLEAN :
         IF failed THEN Exit(1) /\ UNCHANGED dirs
         ELSE /\ dirs' = dirs \cup {"date"}
              /\ pc' = "mkdir_time"
              /\ UNCHANGED exit_status
    /\ UNCHANGED <<argv, csv_before, stats_saved, scratch_of, num_iterations, enableStackTrace, i, current_count, avg,
                   csv_open, csv, scratch, fp, open_fps, runs, console, seen, accVars>>

\* lines 323-327: mkdir(date/time)
MkdirTime ==
    /\ pc = "mkdir_time"
    /\ \E failed \in BOOLEAN :
         IF failed THEN Exit(1) /\ UNCHANGED dirs
         ELSE /\ dirs' = dirs \cup {"time"}
              /\ pc' = "open_csv"
              /\ UNCHANGED exit_status
    /\ UNCHANGED <<argv, csv_before, stats_saved, scratch_of, num_iterations, enableStackTrace, i, current_count, avg,
                   csv_open, csv, scratch, fp, open_fps, runs, console, seen, accVars>>

\* lines 349-362: the eight fopen(path, "a"), which keeps what a file holds;
\* opened are those that succeed
OpenCsv ==
    /\ pc = "open_csv"
    /\ \E opened \in SUBSET Phases :
         /\ csv_open' = opened
         /\ IF opened # Phases THEN Exit(1)
            ELSE pc' = "write_headers" /\ UNCHANGED exit_status
    /\ UNCHANGED <<argv, csv_before, stats_saved, scratch_of, num_iterations, enableStackTrace, i, current_count, avg, dirs,
                   csv, scratch, fp, open_fps, runs, console, seen, accVars>>

\* lines 364-373: the eight write_csv_header, then the loop's int i = 1
WriteHeaders ==
    /\ pc = "write_headers"
    /\ csv' = [p \in Phases |-> Append(csv[p], CsvHeader)]
    /\ i' = 1
    /\ pc' = "loop"
    /\ UNCHANGED <<argv, csv_before, stats_saved, scratch_of, exit_status, num_iterations, enableStackTrace, current_count, avg,
                   dirs, csv_open, scratch, fp, open_fps, runs, console, seen, accVars>>

\* RunCommand without the continue of line 386: a failed command's file is parsed
RunCommandNoContinue ==
    /\ pc = "loop"
    /\ i <= num_iterations
    /\ current_count' = IntInc(current_count)
    /\ \E status \in {0, 1}, out \in Outputs :
         /\ runs' = Append(runs, [iter |-> i, status |-> status])
         /\ scratch' = out
         /\ scratch_of' = i
    /\ pc' = "open_scratch"
    /\ UNCHANGED <<argv, csv_before, stats_saved, exit_status, num_iterations, enableStackTrace, i, avg, dirs,
                   csv_open, csv, fp, open_fps, console, seen, accVars>>

\* lines 373-387: one more iteration: current_count++, system(command), whose
\* shell writes the command's output over the scratch file; continue on failure
RunCommand ==
    /\ pc = "loop"
    /\ i <= num_iterations
    /\ current_count' = IntInc(current_count)
    /\ \E status \in {0, 1}, out \in Outputs :
         /\ runs' = Append(runs, [iter |-> i, status |-> status])
         /\ scratch' = out
         /\ scratch_of' = i
         /\ IF status # 0 THEN i' = IntInc(i) /\ pc' = "loop"
            ELSE i' = i /\ pc' = "open_scratch"
    /\ UNCHANGED <<argv, csv_before, stats_saved, exit_status, num_iterations, enableStackTrace, avg, dirs,
                   csv_open, csv, fp, open_fps, console, seen, accVars>>

\* lines 389-395: fopen(stats_summary_path, "r"); continue when it fails
OpenScratch ==
    /\ pc = "open_scratch"
    /\ \E ok \in BOOLEAN :
         IF ok THEN /\ fp' = 1
                    /\ open_fps' = open_fps + 1
                    /\ pc' = "scan"
                    /\ UNCHANGED i
         ELSE /\ i' = IntInc(i)
              /\ pc' = "loop"
              /\ UNCHANGED <<fp, open_fps>>
    /\ UNCHANGED <<argv, csv_before, stats_saved, scratch_of, exit_status, num_iterations, enableStackTrace, current_count, avg,
                   dirs, csv_open, csv, scratch, runs, console, seen, accVars>>

\* the if/else-if chain of lines 401-440: the phase whose header the line
\* holds, "none" when it holds no header
MatchedPhase(line) ==
    IF \E k \in 1..Len(PhaseOrder) : Contains(line, HeaderOf[PhaseOrder[k]])
    THEN PhaseOrder[CHOOSE k \in 1..Len(PhaseOrder) :
                      /\ Contains(line, HeaderOf[PhaseOrder[k]])
                      /\ \A j \in 1..(k - 1) : ~Contains(line, HeaderOf[PhaseOrder[j]])]
    ELSE "none"

\* the label the chain of parse_metrics_block takes a line for, "none" otherwise
LineLabel(line) ==
    IF \E k \in 1..Len(LabelOrder) : Contains(line, LabelOrder[k])
    THEN LabelOrder[CHOOSE k \in 1..Len(LabelOrder) :
                      /\ Contains(line, LabelOrder[k])
                      /\ \A j \in 1..(k - 1) : ~Contains(line, LabelOrder[j])]
    ELSE "none"

\* what is recorded of a call of parse_metrics_block that read lines from..to-1:
\* the labels among those lines, the sample, the return value, the count
\* passed, the iteration, the first and the last line it read
BlockRecord(lines, from, r, count, iter) ==
    [labels |-> {LineLabel(lines[k]) : k \in from..(r.pos - 1)} \cap Labels,
     nlines |-> Cardinality({k \in from..(r.pos - 1) : LineLabel(lines[k]) \in Labels}),
     out    |-> r.out,
     ret    |-> r.ret,
     count  |-> count,
     iter   |-> iter,
     start  |-> from,
     last   |-> r.pos - 1]

\* ScanBlock with every row written to the sink of the inference phase (a
\* copied write_csv line)
ScanBlockOneSink(p, r) ==
    /\ avg' = [avg EXCEPT ![p] = r.avg]
    /\ csv' = IF r.ret THEN [csv EXCEPT !["inference"] = Append(@, CsvRow(r.out))] ELSE csv
    /\ fp' = r.pos
    /\ seen' = [seen EXCEPT ![p] = Append(@, BlockRecord(scratch, fp + 1, r, current_count, i))]

\* lines 403-404 (and the seven like them): the block of phase p was parsed with
\* result r; write_csv when it returned 1
ScanBlock(p, r) ==
    /\ avg' = [avg EXCEPT ![p] = r.avg]
    /\ csv' = IF r.ret THEN [csv EXCEPT ![p] = Append(@, CsvRow(r.out))] ELSE csv
    /\ fp' = r.pos
    /\ seen' = [seen EXCEPT ![p] = Append(@, BlockRecord(scratch, fp + 1, r, current_count, i))]

\* the process is killed by SIGFPE inside parse_metrics_block (line 179): main
\* does not return. The CSV streams are not flushed: of what csv holds beyond
\* csv_before, what is still in a stream's buffer does not reach the file
Killed ==
    /\ pc' = "killed"
    /\ UNCHANGED <<avg, csv, fp, seen, exit_status>>

\* the call of parse_metrics_block for phase p, r what it did
ScanParsed(p, r) ==
    IF r.trap THEN Killed ELSE ScanBlock(p, r) /\ UNCHANGED <<pc, exit_status>>

\* the body of the while loop of line 398 for a line whose header is of phase p
ScanDispatch(p) ==
    IF p = "none"
    THEN fp' = fp + 1 /\ UNCHANGED <<avg, csv, seen, pc, exit_status>>
    ELSE ScanParsed(p, ParseMetricsBlock(scratch, fp + 1, avg[p], current_count))

\* ScanLine with a break after a block: the rest of the file is not read
ScanLineBreak ==
    /\ pc = "scan"
    /\ fp <= Len(scratch)
    /\ IF MatchedPhase(scratch[fp]) = "none" THEN ScanDispatch("none") /\ i' = i
       ELSE /\ ScanBlock(MatchedPhase(scratch[fp]),
                         ParseMetricsBlock(scratch, fp + 1, avg[MatchedPhase(scratch[fp])],
                                           current_count))
            /\ pc' = "loop" /\ i' = IntInc(i)
            /\ UNCHANGED exit_status
    /\ UNCHANGED <<argv, csv_before, stats_saved, scratch_of, num_iterations,
                   enableStackTrace, current_count, dirs, csv_open, scratch, open_fps, runs,
                   console, accVars>>

\* lines 398-441, one pass of the while loop on a line that was read: a header
\* line starts parse_metrics_block on the lines after it
ScanLine ==
    /\ pc = "scan"
    /\ fp <= Len(scratch)
    /\ ScanDispatch(MatchedPhase(scratch[fp]))
    /\ UNCHANGED <<argv, csv_before, stats_saved, scratch_of, num_iterations, enableStackTrace,
                   i, current_count, dirs, csv_open, scratch, open_fps, runs, console,
                   accVars>>

\* line 398 at the end of the stream: the iteration ends; fp is not closed
ScanEof ==
    /\ pc = "scan"
    /\ fp > Len(scratch)
    /\ fp' = 0
    /\ i' = IntInc(i)
    /\ pc' = "loop"
    /\ UNCHANGED <<argv, csv_before, stats_saved, scratch_of, exit_status, num_iterations, enableStackTrace, current_count, avg,
                   dirs, csv_open, csv, scratch, open_fps, runs, console, seen, accVars>>

\* line 373 with i > num_iterations, then lines 444-451: the eight fclose
CloseCsv ==
    /\ pc = "loop"
    /\ i > num_iterations
    /\ csv_open' = {}
    /\ pc' = "print"
    /\ UNCHANGED <<argv, csv_before, stats_saved, scratch_of, exit_status, num_iterations, enableStackTrace, i, current_count, avg,
                   dirs, csv, scratch, fp, open_fps, runs, console, seen, accVars>>

\* print_metrics / save_metrics: the title and the five numbers as printed
\* by "%.3f", "%.3f", "%.3f", "%.2f" and "%ld"
MetricsText(m, name) ==
    [name |-> name, wall_clock |-> Fixed(m.wall_clock, 3), user_time |-> Fixed(m.user_time, 3),
     system_time |-> Fixed(m.system_time, 3), cpu_usage |-> Fixed(m.cpu_usage, 2),
     max_rss |-> LongText(m.max_rss)]

\* lines 453-459: the five print_metrics
PrintMetrics ==
    /\ pc = "print"
    /\ console' = <<MetricsText(avg["loadmodel"], "Load Model"),
                    MetricsText(avg["readimg"], "Read Image"),
                    MetricsText(avg["readimg_green"], "Pre Processing"),
                    MetricsText(avg["inference"], "Inference"),
                    MetricsText(avg["postprocessing"], "Post Processing")>>
    /\ pc' = "save"
    /\ UNCHANGED <<argv, csv_before, stats_saved, scratch_of, exit_status, num_iterations, enableStackTrace, i, current_count, avg,
                   dirs, csv_open, csv, scratch, fp, open_fps, runs, seen, accVars>>

\* the titles save_metrics_stats gives the phases, in its order
StatsTitles == <<"Load Model", "Read Image (Red Box)", "Red Box", "Read Image (Green Box)",
                 "Inference", "Postprocessing", "Green Box", "Total">>

\* the file save_metrics_stats writes: per phase its metrics, then an empty line
StatsReport ==
    [k \in 1..(2 * Len(PhaseOrder)) |->
        IF k % 2 = 1 THEN MetricsText(avg[PhaseOrder[(k + 1) \div 2]], StatsTitles[(k + 1) \div 2])
        ELSE [name |-> "", blank |-> TRUE]]

\* SaveStats with the report file opened in append mode, as the CSV files are
SaveStatsAppend ==
    /\ pc = "save"
    /\ \E ok \in BOOLEAN :
         /\ scratch' = IF ok THEN scratch \o StatsReport ELSE scratch
         /\ stats_saved' = ok
         /\ scratch_of' = IF ok THEN 0 ELSE scratch_of
    /\ Exit(0)
    /\ UNCHANGED <<argv, csv_before, num_iterations, enableStackTrace, i, current_count, avg,
                   dirs, csv_open, csv, fp, open_fps, runs, console, seen, accVars>>

\* lines 461-471: save_metrics_stats (nothing is written when its fopen fails), return 0
SaveStats ==
    /\ pc = "save"
    /\ \E ok \in BOOLEAN :
         /\ scratch' = IF ok THEN StatsReport ELSE scratch
         /\ stats_saved' = ok
         /\ scratch_of' = IF ok THEN 0 ELSE scratch_of
    /\ Exit(0)
    /\ UNCHANGED <<argv, csv_before, num_iterations, enableStackTrace, i, current_count, avg,
                   dirs, csv_open, csv, fp, open_fps, runs, console, seen, accVars>>

MainInit ==
    /\ pc = "check_args"
    /\ exit_status = 0 - 1
    /\ num_iterations = 0
    /\ enableStackTrace = FALSE
    /\ i = 0
    /\ current_count = 0
    /\ avg = [p \in Phases |-> ZeroMetrics]
    /\ dirs = {}
    /\ csv_open = {}
    /\ csv = csv_before
    /\ scratch = <<>>
    /\ fp = 0
    /\ open_fps = 0
    /\ runs = <<>>
    /\ console = <<>>
    /\ seen = [p \in Phases |-> <<>>]
    /\ stats_saved = FALSE
    /\ scratch_of = 0

\* the result of a parse_metrics_block that has not been called
NoResult ==
    [out |-> ZeroMetrics, avg |-> ZeroMetrics, found |-> 0, pos |-> 1, trap |-> FALSE,
     ret |-> FALSE]

FeedIdle ==
    /\ acc_in = <<>>
    /\ acc_alt = <<>>
    /\ acc_k = 0
    /\ acc_a = ZeroMetrics
    /\ acc_b = ZeroMetrics

BlkIdle ==
    /\ blk_x = <<>>
    /\ blk_y = <<>>
    /\ blk_k = 0
    /\ blk_a = NoResult
    /\ blk_b = NoResult

\* the state of parse_metrics_block before its first line (lines 147-148)
BlockStart(avg_metrics) ==
    [out |-> ZeroMetrics, avg |-> avg_metrics, found |-> 0, stop |-> FALSE, trap |-> FALSE]

UnitIdle ==
    /\ unit_in = [label |-> "none", num |-> <<>>, unit |-> <<>>, glued |-> FALSE,
                  eol |-> <<>>]
    /\ unit_out = BlockStart(ZeroMetrics)

ToolIdle ==
    /\ tool = "none"
    /\ tool_pc = "none"
    /\ tool_exit = 0 - 1
    /\ tool_cwd = "scripts"
    /\ tool_files = {}
    /\ tool_log = <<>>
    /\ number_iterations = 0
    /\ tool_i = 0

AccIdle == FeedIdle /\ BlkIdle /\ UnitIdle /\ ToolIdle

Init ==
    /\ \/ argv \in ArgVectors /\ csv_before = NoFiles
       \/ argv \in RerunArgs /\ csv_before \in FilesBefore \ {NoFiles}
    /\ MainInit
    /\ AccIdle

Next ==
    \/ CheckArgs
    \/ MkdirDate
    \/ MkdirTime
    \/ OpenCsv
    \/ WriteHeaders
    \/ RunCommand
    \/ OpenScratch
    \/ ScanLine
    \/ ScanEof
    \/ CloseCsv
    \/ PrintMetrics
    \/ SaveStats

Spec == Init /\ [][Next]_vars

----------------------------------------------------------------------------
(* The longest run, ./benchmark 2147483647 0, late: at the head of the loop  *)
(* with i = INT_MAX, after 2147483646 passes whose command failed, and with  *)
(* i = -1, after 2^32 - 2 such passes. The history variables hold what       *)
(* happens from that state on.                                               *)

\* the values of i the late run is taken up at
LateStarts == {IntMax, 0 - 1}

LateArgs == <<"benchmark", <<"2", "1", "4", "7", "4", "8", "3", "6", "4", "7">>, <<"0">>>>

LateInit ==
    /\ i \in LateStarts
    /\ argv = LateArgs
    /\ csv_before = NoFiles
    /\ pc = "loop"
    /\ exit_status = 0 - 1
    /\ num_iterations = Atoi(LateArgs[2])
    /\ enableStackTrace = FALSE
    /\ current_count = IntDec(i)
    /\ avg = [p \in Phases |-> ZeroMetrics]
    /\ dirs = {"date", "time"}
    /\ csv_open = Phases
    /\ csv = [p \in Phases |-> <<CsvHeader>>]
    /\ scratch = <<>>
    /\ fp = 0
    /\ open_fps = 0
    /\ runs = <<>>
    /\ console = <<>>
    /\ seen = [p \in Phases |-> <<>>]
    /\ stats_saved = FALSE
    /\ scratch_of = IntDec(i)
    /\ AccIdle

\* the loop of main, for MaxLate commands at most
LateNext ==
    \/ Len(runs) < MaxLate /\ RunCommand
    \/ OpenScratch
    \/ ScanLine
    \/ ScanEof

SpecLate == LateInit /\ [][LateNext]_vars

----------------------------------------------------------------------------
(* The accumulator alone: blocks of five metric lines fed to one phase's     *)
(* average through parse_metrics_block, in two orders                        *)

\* LONG_MAX
LongMax == NatSub(Two63, <<1>>)

\* the samples fed: t is the text of the four float values, r the magnitude of
\* max_rss, minus whether it is written with a minus sign
AccSamples ==
    { [t |-> <<"0", ".", "0", "0", "0", "1">>, r |-> <<>>, minus |-> FALSE],
      [t |-> <<"0", ".", "0", "0", "0", "7">>, r |-> <<>>, minus |-> FALSE],
      [t |-> <<"1", "0">>, r |-> NatOf(MaxRss), minus |-> FALSE],
      [t |-> <<"2", "0">>, r |-> LongMax, minus |-> FALSE] }

\* samples of both signs
SignedSamples ==
    { [t |-> <<"0", ".", "0", "0", "0", "1">>, r |-> <<>>, minus |-> FALSE],
      [t |-> <<"1", "0">>, r |-> NatOf(MaxRss), minus |-> FALSE],
      [t |-> <<"-", "1", "0">>, r |-> NatOf(MaxRss), minus |-> TRUE],
      [t |-> <<"-", "0", ".", "0", "0", "0", "7">>, r |-> <<1>>, minus |-> TRUE] }

\* samples below FLT_MIN: 7e-45 is 5 * 2^-149, 3e-45 is 2 * 2^-149
TinySamples ==
    { [t |-> <<"7", "e", "-", "4", "5">>, r |-> <<>>, minus |-> FALSE],
      [t |-> <<"3", "e", "-", "4", "5">>, r |-> <<>>, minus |-> FALSE],
      [t |-> <<"0">>, r |-> <<>>, minus |-> FALSE] }

\* samples near FLT_MAX, whose sum of three is about 2^128
HugeSamples ==
    { [t |-> <<"0", "x", "1", ".", "a", "3", "9", "f", "5", "6", "p", "+", "1", "2", "6">>,
       r |-> <<>>, minus |-> FALSE],
      [t |-> <<"0", "x", "1", ".", "7", "1", "8", "2", "a", "2", "p", "+", "1", "2", "5">>,
       r |-> <<>>, minus |-> FALSE] }

\* the sets a sequence of samples is drawn from
SampleFamilies == {AccSamples, SignedSamples, TinySamples, HugeSamples}

\* the max_rss of the sample x
RssOf(x) == LongOf(x.minus, x.r)

\* the five metric lines of the sample x
AccLines(x) ==
    <<MetricLine("Wall Clock Time:", <<" ">> \o x.t \o <<" ">> \o UnitMs \o <<"\n">>),
      MetricLine("User time:", <<" ">> \o x.t \o <<" ">> \o UnitMs \o <<"\n">>),
      MetricLine("System time:", <<" ">> \o x.t \o <<" ">> \o UnitMs \o <<"\n">>),
      MetricLine("CPU Usage:", <<" ">> \o x.t \o <<"\n">>),
      MetricLine("Max RSS:", <<" ">> \o LongText(RssOf(x)) \o <<"\n">>)>>

\* the elements of s in the order f
Permuted(s, f) == [k \in 1..Len(s) |-> s[f[k]]]

\* the average after the block of sample x is parsed with the given count
Feed(average, count, x) ==
    ParseMetricsBlock(AccLines(x) \o <<TermLine>>, 1, average, count).avg

AccInit ==
    /\ argv = <<"benchmark">>
    /\ csv_before = NoFiles
    /\ MainInit
    /\ \E n \in 1..MaxFeed : \E f \in Permutations(1..n) :
         /\ \E F \in SampleFamilies : acc_in \in [1..n -> F]
         /\ acc_alt = Permuted(acc_in, f)
    /\ acc_k = 0
    /\ acc_a = ZeroMetrics
    /\ acc_b = ZeroMetrics
    /\ BlkIdle
    /\ UnitIdle
    /\ ToolIdle

\* the next block of each order is parsed, as the acc_k+1-th of its phase
AccFeed ==
    /\ acc_k < Len(acc_in)
    /\ acc_k' = acc_k + 1
    /\ acc_a' = Feed(acc_a, acc_k + 1, acc_in[acc_k + 1])
    /\ acc_b' = Feed(acc_b, acc_k + 1, acc_alt[acc_k + 1])
    /\ UNCHANGED <<acc_in, acc_alt, mainVars, blkVars, unitVars, toolVars>>

AccNext == AccFeed

SpecAcc == AccInit /\ [][AccNext]_vars

----------------------------------------------------------------------------
(* The block parser alone: one phase's blocks, each parsed with its five     *)
(* metric lines in file order and in another order                           *)

\* the five metric lines of the blocks parsed: plain samples, one written by
\* another tool (CR LF, seconds, an exponent, hexadecimal, a max_rss beyond
\* LONG_MAX), one whose wall clock holds no number and whose CPU usage is nan
BlockSamples ==
    { FieldLines(10, MaxRss), FieldLines(20, 0), ForeignLines,
      <<MetricLine("Wall Clock Time:", <<" ", "n", "/", "a">>),
        UserLine(30), SysLine(30), MetricLine("CPU Usage:", <<" ", "n", "a", "n", "\n">>),
        RssLine(1)>> }

RECURSIVE PriorAverage(_, _)
\* the phase average after the first n blocks of prior were parsed, in file order
PriorAverage(prior, n) ==
    IF n = 0 THEN ZeroMetrics
    ELSE ParseMetricsBlock(prior[n] \o <<TermLine>>, 1, PriorAverage(prior, n - 1), n).avg

\* the phase has parsed blk_k blocks already
BlkInit ==
    /\ argv = <<"benchmark">>
    /\ csv_before = NoFiles
    /\ MainInit
    /\ FeedIdle
    /\ UnitIdle
    /\ ToolIdle
    /\ blk_x = <<>>
    /\ blk_y = <<>>
    /\ \E n \in 0..MaxBlk : \E prior \in [1..n -> BlockSamples] :
         /\ blk_k = n
         /\ blk_a = [NoResult EXCEPT !.avg = PriorAverage(prior, n)]
         /\ blk_b = [NoResult EXCEPT !.avg = PriorAverage(prior, n)]

\* the next block of the phase is parsed, as the blk_k+1-th, from the average
\* its predecessors left; once in file order and once permuted
BlkParse ==
    /\ blk_x = <<>>
    /\ blk_k' = blk_k + 1
    /\ \E x \in BlockSamples, f \in Permutations(1..5) :
         /\ blk_x' = x \o <<TermLine>>
         /\ blk_y' = Permuted(x, f) \o <<TermLine>>
    /\ blk_a' = ParseMetricsBlock(blk_x', 1, blk_a.avg, blk_k + 1)
    /\ blk_b' = ParseMetricsBlock(blk_y', 1, blk_b.avg, blk_k + 1)
    /\ UNCHANGED <<mainVars, feedVars, unitVars, toolVars>>

BlkNext == BlkParse

SpecBlk == BlkInit /\ [][BlkNext]_vars

----------------------------------------------------------------------------
(* One metric line alone: a number with a unit after one of the five labels  *)

UnitMicro == <<"\\302", "\\265", "s">>
UnitUs == <<"u", "s">>
UnitSeconds == <<"s", "e", "c", "o", "n", "d", "s">>

\* the units the command is let to print: none, ms, s, sec, the micro sign
\* with s in UTF-8, microseconds, the bytes of the source literal, us, seconds
UnitTexts == {<<>>, UnitMs, UnitS, UnitSec, UnitMicro, UnitMicroseconds, UnitMicroLiteral,
              UnitUs, UnitSeconds}

\* the numbers printed: decimals, whole numbers, with an exponent, in
\* hexadecimal, below a thousandth, with more digits than a float holds, nan
NumberTexts ==
    { <<"0", ".", "0", "0", "0">>, <<"1", ".", "5", "0", "0">>, <<"2">>,
      <<"1", "2", ".", "5", "0", "0">>, <<"4", "0", "9", "6", "0">>, <<"1", "e", "3">>,
      <<"0", "x", "1", "0">>, <<"0", ".", "0", "0", "0", "5">>,
      <<"1", "2", "3", "4", "5", "6", ".", "7">>, <<"n", "a", "n">> }

\* how the line ends: not at all, with a line feed, with CR LF
LineEnds == {<<>>, <<"\n">>, CrLf}

\* the text after the label: " <num>", then the unit, after a space unless
\* glued, then the end of the line
ValueText(x) ==
    <<" ">> \o x.num \o (IF x.unit = <<>> \/ x.glued THEN <<>> ELSE <<" ">>) \o x.unit \o x.eol

UnitInit ==
    /\ argv = <<"benchmark">>
    /\ csv_before = NoFiles
    /\ MainInit
    /\ FeedIdle
    /\ BlkIdle
    /\ ToolIdle
    /\ unit_in \in [label : Labels, num : NumberTexts, unit : UnitTexts, glued : BOOLEAN,
                    eol : LineEnds]
    /\ unit_out = BlockStart(ZeroMetrics)

\* the line is read by parse_metrics_block as the first line of a block
UnitParse ==
    /\ unit_out.found = 0
    /\ unit_out' = BlockLine(MetricLine(unit_in.label, ValueText(unit_in)), unit_out, 1)
    /\ UNCHANGED <<mainVars, feedVars, blkVars, unit_in, toolVars>>

UnitNext == UnitParse

SpecUnit == UnitInit /\ [][UnitNext]_vars

----------------------------------------------------------------------------
(* The build program (src/scripts/build.c) and the command runner (the first *)
(* program of src/scripts/benchmark.c, lines 1-61)                           *)

\* build.c line 62: the files remove_old_binaries is given
BinaryFiles == {"wasmtime-test", "wasi-nn-module.wasm", "wasi-nn-module.wasm.SERIALIZED"}

\* one more step in the history
Logged(step, status) == Append(tool_log, [step |-> step, status |-> status])

\* run_command that goes on after a failed command (no exit in the else branch)
run_command_no_exit(command, status, next) ==
    /\ tool_log' = Logged(command, status)
    /\ tool_pc' = next
    /\ UNCHANGED tool_exit

\* run_command: system(command); on a non-zero status exit(EXIT_FAILURE).
\* status is what system() returned, next the place after the call
run_command(command, status, next) ==
    /\ tool_log' = Logged(command, status)
    /\ IF status = 0 THEN tool_pc' = next /\ UNCHANGED tool_exit
       ELSE tool_pc' = "exit" /\ tool_exit' = 1

\* move_file: run_command on "mv source destination"; file is what a
\* successful mv puts into ./binaries
move_file(command, file, status, next) ==
    /\ run_command(command, status, next)
    /\ tool_files' = IF status = 0 THEN tool_files \cup {file} ELSE tool_files

\* change_dir: chdir(dir_path), its result not tested
change_dir(dir, next) ==
    /\ \E ok \in BOOLEAN : tool_cwd' = IF ok THEN dir ELSE tool_cwd
    /\ tool_log' = Logged("chdir", 0)
    /\ tool_pc' = next

\* build.c lines 62-63: remove_old_binaries; removed are the files remove() deleted
BuildRemove ==
    /\ tool = "build" /\ tool_pc = "remove"
    /\ \E removed \in SUBSET (tool_files \cap BinaryFiles) : tool_files' = tool_files \ removed
    /\ tool_log' = Logged("remove old binaries", 0)
    /\ tool_pc' = "chdir_module"
    /\ UNCHANGED <<mainVars, feedVars, blkVars, unitVars, tool, tool_exit, tool_cwd,
                   number_iterations, tool_i>>

\* build.c line 66
BuildChdirModule ==
    /\ tool = "build" /\ tool_pc = "chdir_module"
    /\ change_dir("wasm-module", "build_module")
    /\ UNCHANGED <<mainVars, feedVars, blkVars, unitVars, tool, tool_exit, tool_files,
                   number_iterations, tool_i>>

\* build.c line 67
BuildModule ==
    /\ tool = "build" /\ tool_pc = "build_module"
    /\ \E status \in {0, 1} : run_command("build wasm module", status, "move_module")
    /\ UNCHANGED <<mainVars, feedVars, blkVars, unitVars, tool, tool_cwd, tool_files,
                   number_iterations, tool_i>>

\* build.c line 68
BuildMoveModule ==
    /\ tool = "build" /\ tool_pc = "move_module"
    /\ \E status \in {0, 1} :
         move_file("move wasm module", "wasi-nn-module.wasm", status, "chdir_wrapper")
    /\ UNCHANGED <<mainVars, feedVars, blkVars, unitVars, tool, tool_cwd,
                   number_iterations, tool_i>>

\* build.c line 71
BuildChdirWrapper ==
    /\ tool = "build" /\ tool_pc = "chdir_wrapper"
    /\ change_dir("wasmtime-custom", "build_wrapper")
    /\ UNCHANGED <<mainVars, feedVars, blkVars, unitVars, tool, tool_exit, tool_files,
                   number_iterations, tool_i>>

\* build.c line 72
BuildWrapper ==
    /\ tool = "build" /\ tool_pc = "build_wrapper"
    /\ \E status \in {0, 1} : run_command("build wasmtime wrapper", status, "move_wrapper")
    /\ UNCHANGED <<mainVars, feedVars, blkVars, unitVars, tool, tool_cwd, tool_files,
                   number_iterations, tool_i>>

\* build.c line 73
BuildMoveWrapper ==
    /\ tool = "build" /\ tool_pc = "move_wrapper"
    /\ \E status \in {0, 1} :
         move_file("move wasmtime wrapper", "wasmtime-test", status, "return")
    /\ UNCHANGED <<mainVars, feedVars, blkVars, unitVars, tool, tool_cwd,
                   number_iterations, tool_i>>

\* build.c line 75 and benchmark.c line 60: return 0
ToolReturn ==
    /\ tool_pc = "return"
    /\ tool_pc' = "exit"
    /\ tool_exit' = 0
    /\ UNCHANGED <<mainVars, feedVars, blkVars, unitVars, tool, tool_cwd, tool_files,
                   tool_log, number_iterations, tool_i>>

\* benchmark.c lines 14-23 and 49-51: parse_args
RunnerParseArgs ==
    /\ tool = "runner" /\ tool_pc = "parse_args"
    /\ IF Argc < 3
       THEN tool_pc' = "exit" /\ tool_exit' = 1 /\ UNCHANGED number_iterations
       ELSE tool_pc' = "chdir" /\ number_iterations' = Atoi(Arg(1)) /\ UNCHANGED tool_exit
    /\ UNCHANGED <<mainVars, feedVars, blkVars, unitVars, tool, tool_cwd, tool_files,
                   tool_log, tool_i>>

\* benchmark.c lines 54-55: change_dir("./binaries"), then int i = 1
RunnerChdir ==
    /\ tool = "runner" /\ tool_pc = "chdir"
    /\ change_dir("binaries", "loop")
    /\ tool_i' = 1
    /\ UNCHANGED <<mainVars, feedVars, blkVars, unitVars, tool, tool_exit, tool_files,
                   number_iterations>>

\* benchmark.c lines 55-58: one pass of the loop; run_command's exit (line 42)
\* leaves the loop before its i++
RunnerRun ==
    /\ tool = "runner" /\ tool_pc = "loop"
    /\ tool_i <= number_iterations
    /\ \E status \in {0, 1} :
         /\ run_command("command", status, "loop")
         /\ tool_i' = IF status = 0 THEN IntInc(tool_i) ELSE tool_i
    /\ UNCHANGED <<mainVars, feedVars, blkVars, unitVars, tool, tool_cwd, tool_files,
                   number_iterations>>

\* benchmark.c line 55 with i > number_iterations
RunnerLoopEnd ==
    /\ tool = "runner" /\ tool_pc = "loop"
    /\ tool_i > number_iterations
    /\ tool_pc' = "return"
    /\ UNCHANGED <<mainVars, feedVars, blkVars, unitVars, tool, tool_exit, tool_cwd,
                   tool_files, tool_log, number_iterations, tool_i>>

\* the argument vectors the runner is started with, bounded by MaxRunnerIter
RunnerArgs ==
    { a \in { <<"runner">>,
              <<"runner", <<"2">>>>,
              <<"runner", <<"0">>, "cmd">>,
              <<"runner", <<"-", "1">>, "cmd">>,
              <<"runner", <<"1">>, "cmd">>,
              <<"runner", <<"2">>, "cmd">>,
              <<"runner", <<"3">>, "cmd">>,
              <<"runner", <<"4">>, "cmd">>,
              <<"runner", <<"4", "2", "9", "4", "9", "6", "7", "2", "9", "7">>, "cmd">>,
              <<"runner", <<"2">>, "cmd", "more">> } :
        Len(a) >= 3 => Atoi(a[2]) <= MaxRunnerIter }

ToolInit ==
    /\ csv_before = NoFiles
    /\ MainInit
    /\ FeedIdle
    /\ BlkIdle
    /\ UnitIdle
    /\ tool \in {"build", "runner"}
    /\ tool_pc = IF tool = "build" THEN "remove" ELSE "parse_args"
    /\ argv \in IF tool = "build" THEN {<<"build">>} ELSE RunnerArgs
    /\ tool_exit = 0 - 1
    /\ tool_cwd = "scripts"
    /\ tool_files \in IF tool = "build" THEN SUBSET BinaryFiles ELSE {{}}
    /\ tool_log = <<>>
    /\ number_iterations = 0
    /\ tool_i = 0

ToolNext ==
    \/ BuildRemove
    \/ BuildChdirModule
    \/ BuildModule
    \/ BuildMoveModule
    \/ BuildChdirWrapper
    \/ BuildWrapper
    \/ BuildMoveWrapper
    \/ RunnerParseArgs
    \/ RunnerChdir
    \/ RunnerRun
    \/ RunnerLoopEnd
    \/ ToolReturn

SpecTool == ToolInit /\ [][ToolNext]_vars

----------------------------------------------------------------------------
(* What the claims speak of *)

\* a parsed block in which each of the five fields was found at least once
HasAllFields(e) == e.labels = Labels

\* the well-formed samples recorded for phase p so far, in order
SamplesOf(p) == SelectSeq(seen[p], HasAllFields)

RECURSIVE FSum(_, _)
\* the sum of float field f over the samples of recs, in float arithmetic
FSum(recs, f) ==
    IF recs = <<>> THEN FZero ELSE FloatAdd(FSum(SubSeq(recs, 1, Len(recs) - 1), f),
                                            recs[Len(recs)].out[f])

RECURSIVE LSum(_)
\* the sum of max_rss over the samples of recs, in long arithmetic
LSum(recs) ==
    IF recs = <<>> THEN LongZero
    ELSE LongAdd(LSum(SubSeq(recs, 1, Len(recs) - 1)), recs[Len(recs)].out.max_rss)

\* the arithmetic mean of float field f over recs (not empty): the sum
\* divided by the number of samples, rounded to float
MeanOf(recs, f) == FloatDiv(FSum(recs, f), IntToFloat(Len(recs)))

\* the mean of every field over recs, max_rss by truncating division
MeanMetrics(recs) ==
    IF recs = <<>> THEN ZeroMetrics
    ELSE [user_time |-> MeanOf(recs, "user_time"), system_time |-> MeanOf(recs, "system_time"),
          cpu_usage |-> MeanOf(recs, "cpu_usage"), wall_clock |-> MeanOf(recs, "wall_clock"),
          max_rss |-> LongDivInt(LSum(recs), Len(recs))]

\* the iterations whose command returned non-zero
FailedIters(r) == {r[k].iter : k \in {j \in 1..Len(r) : r[j].status # 0}}

\* the CSV rows of recs, in order
RowsOf(recs) == [k \in 1..Len(recs) |-> CsvRow(recs[k].out)]

\* main returned
Exited(k) == pc = "exit" /\ exit_status = k

\* the iteration loop ran all its iterations
LoopCompleted ==
    num_iterations >= 1 /\ i = num_iterations + 1 /\ Len(runs) = num_iterations

----------------------------------------------------------------------------
(* Claims *)

\* C1: after any sequence of iterations each phase average is, field by field,
\* the arithmetic mean of the well-formed samples recorded for that phase so
\* far (max_rss by truncating division); zero while there is none.
C1_AverageIsMeanOfSamples ==
    \A p \in Phases : avg[p] = MeanMetrics(SamplesOf(p))

\* C2: a block that lacks one of the five fields leaves its phase's average
\* and its phase's CSV file as they were before the block was read.
C2_MalformedBlockChangesNothing ==
    [][\A p \in Phases :
         (Len(seen'[p]) > Len(seen[p]) /\ ~HasAllFields(seen'[p][Len(seen'[p])]))
            => (avg'[p] = avg[p] /\ csv'[p] = csv[p])]_vars

\* C3: parse_metrics_block accepts a block (and its row is written) exactly
\* when each of the five fields was found at least once among its lines.
C3_AcceptedIffAllFieldsFound ==
    \A p \in Phases : \A k \in 1..Len(seen[p]) :
        seen[p][k].ret = HasAllFields(seen[p][k])

\* C4: the step in which the command of iteration i fails changes no average
\* and no CSV file and leads to iteration i+1; and no average or CSV file ever
\* changes in an iteration whose command failed.
C4_FailedIterationSkipped ==
    [][/\ (Len(runs') > Len(runs) /\ runs'[Len(runs')].status # 0)
            => (avg' = avg /\ csv' = csv /\ pc' = "loop" /\ i' = i + 1)
       /\ (avg' # avg \/ csv' # csv) => i \notin FailedIters(runs')]_vars

\* a run ended in which an iteration failed and a later one wrote a row
C4_Witness ==
    /\ Exited(0)
    /\ 1 \in FailedIters(runs)
    /\ \E p \in Phases : Len(seen[p]) > 0 /\ Len(csv[p]) > Len(csv_before[p]) + 1

\* C5: at the end of a run each CSV file is the header line followed by one
\* row per well-formed block of its phase, in the order the blocks were met.
C5_CsvIsHeaderThenSampleRows ==
    Exited(0) => \A p \in Phases : csv[p] = <<CsvHeader>> \o RowsOf(SamplesOf(p))

\* every command succeeded and every iteration's output held exactly one
\* well-formed block of phase p
OneSamplePerIteration(p) ==
    /\ \A k \in 1..Len(runs) : runs[k].status = 0
    /\ \A it \in 1..num_iterations :
         Cardinality({k \in 1..Len(seen[p]) :
                        seen[p][k].iter = it /\ HasAllFields(seen[p][k])}) = 1

\* C6: when every command succeeds and every output holds exactly one
\* well-formed block of a phase, the phase's final float averages are the
\* arithmetic means of the per-iteration values.
C6_CleanRunAverageIsMean ==
    \A p \in Phases :
        (Exited(0) /\ OneSamplePerIteration(p))
           => /\ avg[p].wall_clock = MeanOf(SamplesOf(p), "wall_clock")
              /\ avg[p].user_time = MeanOf(SamplesOf(p), "user_time")
              /\ avg[p].system_time = MeanOf(SamplesOf(p), "system_time")
              /\ avg[p].cpu_usage = MeanOf(SamplesOf(p), "cpu_usage")

\* every block of the accumulator harness was fed
AccDone == acc_k = Len(acc_in)

RECURSIVE FedRss(_, _)
\* the sum of the magnitudes of max_rss over the first k samples of s, a
\* number of any size
FedRss(s, k) == IF k = 0 THEN <<>> ELSE NatAdd(FedRss(s, k - 1), s[k].r)

\* the sum of the magnitudes of the samples fed so far is a long
FedInRange == NatLess(FedRss(acc_in, acc_k), Two63)

\* the max_rss samples fed so far are non-negative; are of one sign
FedRssNonNegative == \A k \in 1..acc_k : ~RssOf(acc_in[k]).neg

FedRssOneSign ==
    \/ FedRssNonNegative
    \/ \A k \in 1..acc_k : RssOf(acc_in[k]).neg \/ acc_in[k].r = <<>>

\* the float value of the sample x
FloatOf(x) == ScanFloat(x.t, 1).val

\* the float samples fed are of one sign
FedOneSign ==
    \/ \A k \in 1..Len(acc_in) : FloatOf(acc_in[k]).m = 0 \/ ~FloatOf(acc_in[k]).neg
    \/ \A k \in 1..Len(acc_in) : FloatOf(acc_in[k]).m = 0 \/ FloatOf(acc_in[k]).neg

\* C7 as stated: fed in any two orders, the samples give the same average in
\* every field, max_rss included.
C7_OrderIndependentEveryField ==
    AccDone => acc_a = acc_b

\* the magnitude of the finite float a in units of 2^e
FloatUnits(a, e) == IF a.m = 0 THEN <<>> ELSE NatShl(NatOf(a.m), a.e - e)

\* the least exponent of the finite floats a and b, of the other when one is 0
LowExp(a, b) ==
    IF a.m = 0 THEN b.e ELSE IF b.m = 0 \/ a.e <= b.e THEN a.e ELSE b.e

\* the distance of the natural numbers x and y
NatGap(x, y) == IF NatLess(x, y) THEN NatSub(y, x) ELSE NatSub(x, y)

\* the larger of the natural numbers x and y
NatMax(x, y) == IF NatLess(x, y) THEN y ELSE x

\* n * 2^-148 in units of 2^(e - 21), rounded down
SlackUnits(n, e) ==
    IF e <= 0 - 127 THEN NatShl(NatOf(n), 0 - 127 - e)
    ELSE IF e + 127 > 30 THEN <<>>
    ELSE NatOf(n \div Pow2(e + 127))

\* |x - y| * 2^21 <= n * max(x, y) + slack
NearUnits(x, y, n, slack) ==
    ~NatLess(NatAdd(NatMul(NatMax(x, y), n), slack), NatShl(NatGap(x, y), 21))

\* the magnitudes of the finite floats a and b differ by at most n * 2^-21 of
\* the larger plus n * 2^-148, exactly
FloatNear(a, b, n) ==
    NearUnits(FloatUnits(a, LowExp(a, b)), FloatUnits(b, LowExp(a, b)), n,
              SlackUnits(n, LowExp(a, b)))

\* a and b are finite and of one sign
Comparable(a, b) ==
    /\ a.cls = "fin" /\ b.cls = "fin"
    /\ a.m = 0 \/ b.m = 0 \/ a.neg = b.neg

\* the float averages of field f, when both are finite, are near
FieldNear(f) ==
    (acc_a[f].cls = "fin" /\ acc_b[f].cls = "fin") =>
        Comparable(acc_a[f], acc_b[f]) /\ FloatNear(acc_a[f], acc_b[f], Len(acc_in))

FloatFields == {"wall_clock", "user_time", "system_time", "cpu_usage"}

\* the distance of two long values
LongGap(a, b) == SignedAdd(a, LongOf(~b.neg, b.mag)).mag

\* C7 amended: fed in any two orders, one or two samples give the same
\* average in every field. Three and more samples of one sign give float
\* averages that, when both are finite, differ by at most N * 2^-21 of the
\* larger plus N * 2^-148. While the sum of the magnitudes of the samples is
\* within the range of long, the max_rss averages differ by at most (N-1)/2
\* for samples of one sign and by at most N-1 for any samples.
C7_OrderIndependentUpToRounding ==
    AccDone =>
        /\ Len(acc_in) <= 2 => acc_a = acc_b
        /\ FedOneSign => \A f \in FloatFields : FieldNear(f)
        /\ FedInRange =>
               /\ ~NatLess(NatOf(acc_k - 1), LongGap(acc_a.max_rss, acc_b.max_rss))
               /\ FedRssOneSign =>
                      ~NatLess(NatOf(acc_k - 1),
                               NatMul(LongGap(acc_a.max_rss, acc_b.max_rss), 2))

\* two different samples were fed in both orders and gave one average, which
\* is neither of the two samples
C7_Witness ==
    /\ AccDone
    /\ Len(acc_in) = 2
    /\ acc_in # acc_alt
    /\ acc_a = acc_b
    /\ acc_a.wall_clock # FloatOf(acc_in[1])
    /\ acc_a.wall_clock # FloatOf(acc_in[2])
    /\ acc_a.max_rss # RssOf(acc_in[1])
    /\ acc_a.max_rss # RssOf(acc_in[2])

\* three samples fed in two orders gave float averages that are printed
\* differently, with the same max_rss average
C7_FloatOrderSeen ==
    /\ AccDone
    /\ Len(acc_in) = 3
    /\ Fixed(acc_a.wall_clock, 3) # Fixed(acc_b.wall_clock, 3)
    /\ acc_a.max_rss = acc_b.max_rss

\* three samples fed in two orders gave different max_rss averages, with
\* float averages that are printed alike
C7_RssOrderSeen ==
    /\ AccDone
    /\ Len(acc_in) = 3
    /\ acc_a.max_rss # acc_b.max_rss
    /\ Fixed(acc_a.wall_clock, 3) = Fixed(acc_b.wall_clock, 3)

\* 7e-45, 0, 0 gave 2^-149 in one order and 2^-148 in another: below FLT_MIN
\* the averages of two orders are not near in proportion
C7_TinyOrderSeen ==
    /\ AccDone
    /\ Len(acc_in) = 3
    /\ acc_a.wall_clock = Finite(FALSE, 1, 0 - 149)
    /\ acc_b.wall_clock = Finite(FALSE, 1, 0 - 148)

\* three samples of both signs gave, in two orders, finite float averages
\* that are not near
C7_MixedSignsSeen ==
    /\ AccDone
    /\ Len(acc_in) = 3
    /\ ~FedOneSign
    /\ Comparable(acc_a.wall_clock, acc_b.wall_clock)
    /\ ~FloatNear(acc_a.wall_clock, acc_b.wall_clock, 3)

\* three positive samples gave a finite float average in one order and an
\* infinite one in another
C7_OverflowOrderSeen ==
    /\ AccDone
    /\ Len(acc_in) = 3
    /\ FedOneSign
    /\ acc_a.wall_clock.cls = "fin"
    /\ acc_b.wall_clock.cls = "inf"

\* acc_k times the running max_rss average
FedAverageTimesCount == NatMul(acc_a.max_rss.mag, acc_k)

\* what the running average times the count lacks of the sum of the samples
FedShortfall == NatSub(FedRss(acc_in, acc_k), FedAverageTimesCount)

\* C8 as stated: the running max_rss average of N non-negative samples is the
\* truncated arithmetic mean of the N samples.
C8_RunningIsTruncatedMean ==
    (acc_k >= 1 /\ FedRssNonNegative) =>
        acc_a.max_rss = LongOf(FALSE, NatDiv(FedRss(acc_in, acc_k), acc_k).q)

\* C8 amended: while the sum of the samples is within the range of long, the
\* running max_rss average of N non-negative samples is never above their
\* exact mean and is below it by at most (N-1)/2.
C8_RunningWithinHalfNOfMean ==
    (acc_k >= 1 /\ FedRssNonNegative /\ FedInRange) =>
        /\ ~acc_a.max_rss.neg
        /\ ~NatLess(FedRss(acc_in, acc_k), FedAverageTimesCount)
        /\ ~NatLess(NatOf(acc_k * (acc_k - 1)), NatMul(FedShortfall, 2))

\* three samples whose running average is a whole unit below their mean
C8_Witness ==
    /\ AccDone
    /\ Len(acc_in) >= 3
    /\ FedRssNonNegative
    /\ FedInRange
    /\ ~acc_a.max_rss.neg
    /\ ~NatLess(FedRss(acc_in, acc_k), FedAverageTimesCount)
    /\ ~NatLess(FedShortfall, NatOf(acc_k))

\* two samples whose sum is beyond LONG_MAX gave a negative average
C8_OverflowSeen ==
    /\ AccDone
    /\ FedRssNonNegative
    /\ ~FedInRange
    /\ acc_a.max_rss.neg

\* s from position k on is digits, and at least one
DigitsFrom(s, k) == k <= Len(s) /\ \A j \in k..Len(s) : IsDigit(s[j])

\* s is a decimal integer: an optional sign, then digits only
IsNumeric(s) ==
    \/ DigitsFrom(s, 1)
    \/ Len(s) >= 1 /\ s[1] \in {"-", "+"} /\ DigitsFrom(s, 2)

\* s, a decimal integer, is negative or zero: a minus sign, or no digit but 0
NotPositive(s) == s[1] = "-" \/ \A j \in 1..Len(s) : s[j] \in {"+", "0"}

\* the argument count is not two, or num_iterations is not numeric, zero or negative
BadArguments == Argc # 3 \/ ~IsNumeric(Arg(1)) \/ NotPositive(Arg(1))

\* C9: with a wrong argument count or a num_iterations that is zero, negative
\* or non-numeric the program exits with status 1 at once: no directory is
\* made, no CSV file opened, the command never run.
C9_BadArgumentsExitAtOnce ==
    BadArguments => /\ pc \in {"check_args", "exit"}
                    /\ pc = "exit" => exit_status = 1
                    /\ dirs = {}
                    /\ csv_open = {}
                    /\ runs = <<>>

\* main returns 0 exactly when the iteration loop ran to its end, and 1
\* exactly when check_args refused the arguments, a mkdir failed or a CSV file
\* did not open; when it returns 1 the command was never run.
ExitStatusByCheckArgs ==
    pc = "exit" =>
        /\ exit_status \in {0, 1}
        /\ exit_status = 0 <=> LoopCompleted
        /\ exit_status = 1 =>
              /\ runs = <<>>
              /\ \/ CheckArgsResult.ret = 1
                 \/ dirs # {"date", "time"}
                 \/ csv_open # Phases

\* one of the eight fopen of lines 349-356 failed (after the loop the files
\* are closed)
SomeCsvNotOpened == csv_open # Phases /\ ~LoopCompleted

\* C10: main returns 0 when the iteration loop ran to its end, and returns 1
\* exactly on an argument error (a wrong argument count, a num_iterations that
\* is zero, negative or non-numeric), a failed mkdir or a CSV file that did
\* not open; when it returns 1 the command was never run.
C10_ExitStatus ==
    pc = "exit" =>
        /\ exit_status \in {0, 1}
        /\ LoopCompleted => exit_status = 0
        /\ exit_status = 1 <=> \/ BadArguments
                               \/ dirs # {"date", "time"}
                               \/ SomeCsvNotOpened
        /\ exit_status = 1 => runs = <<>>

\* a run with the non-numeric num_iterations 1a ran its command and returned 0
C10_BadArgumentsExitZero ==
    /\ Exited(0)
    /\ BadArguments
    /\ Len(runs) = 1

\* a run returned 0 although every one of its iterations was skipped
AllSkippedExitZero ==
    /\ Exited(0)
    /\ Len(runs) >= 2
    /\ \A k \in 1..Len(runs) : runs[k].status # 0

\* the command was run once for each of the iterations 1..n, in that order
RanOncePerIteration(n) == Len(runs) = n /\ \A k \in 1..n : runs[k].iter = k

\* where main stands from the loop on, later places lower
PlaceRank ==
    CASE pc = "loop" -> 5
      [] pc = "open_scratch" -> 4
      [] pc = "scan" -> 3
      [] pc = "print" -> 2
      [] pc = "save" -> 1
      [] OTHER -> 0

\* what is left of the run: iterations to start, places to pass, lines to read
WorkLeft(iter, rank, line) ==
    <<num_iterations + 1 - iter, rank, IF rank = 3 THEN Len(scratch) + 1 - line ELSE 0>>

\* a precedes b in the lexicographic order of triples of naturals
LexLess(a, b) ==
    /\ \A k \in 1..3 : a[k] >= 0
    /\ \/ a[1] < b[1]
       \/ a[1] = b[1] /\ a[2] < b[2]
       \/ a[1] = b[1] /\ a[2] = b[2] /\ a[3] < b[3]

\* C11: every execution of the command is for an iteration index of
\* 1..num_iterations, and the indexes increase from one execution to the next.
C11_RunsWithinIterations ==
    \A k \in 1..Len(runs) :
        /\ runs[k].iter >= 1
        /\ runs[k].iter <= num_iterations
        /\ k > 1 => runs[k].iter > runs[k - 1].iter

\* the command was run for the iteration after INT_MAX
C11_WrapSeen ==
    /\ Len(runs) = 2
    /\ runs[1].iter = IntMax
    /\ runs[2].iter = IntMin

\* the average of a block parsed in the iteration after INT_MAX has the
\* opposite sign of its samples
C11_NegativeAverageSeen ==
    /\ current_count = IntMin
    /\ Len(seen["inference"]) = 1
    /\ avg["inference"].wall_clock.neg

\* 2^32 passes after the first the count is 0 again: the max_rss update of a
\* block divides by it and the process is killed
KilledByZeroCount ==
    /\ pc = "killed"
    /\ current_count = 0
    /\ Len(runs) = 2

\* in a run of at most MaxIter iterations: the command is executed once for
\* each iteration 1..num_iterations in increasing order, whatever fails; a
\* failed execution is not attempted again; every step from the loop on
\* leaves less work, so the run terminates, and when the loop is left the
\* command has run exactly num_iterations times.
CommandRunOncePerIteration ==
    [][/\ Len(runs') > Len(runs) =>
            /\ runs' = Append(runs, runs'[Len(runs')])
            /\ runs'[Len(runs')].iter = Len(runs) + 1
            /\ runs'[Len(runs')].iter = i
            /\ i <= num_iterations
       /\ pc \in {"loop", "open_scratch", "scan", "print", "save"} =>
            LexLess(WorkLeft(i', PlaceRank', fp'), WorkLeft(i, PlaceRank, fp))
       /\ pc' \in {"print", "save", "exit"} /\ exit_status' # 1 =>
            RanOncePerIteration(num_iterations')]_vars

\* a run of three iterations ended whose first and last command failed
RanThreeTimes ==
    /\ Exited(0)
    /\ RanOncePerIteration(3)
    /\ runs[1].status # 0
    /\ runs[2].status = 0
    /\ runs[3].status # 0

\* C12: parsing a block gives the same outcome for every order of its five
\* field lines: the same acceptance, the same CSV row, the same phase average.
C12_FieldOrderIrrelevant ==
    blk_x # <<>> =>
    /\ blk_a.ret = blk_b.ret
    /\ CsvRow(blk_a.out) = CsvRow(blk_b.out)
    /\ blk_a.out = blk_b.out
    /\ blk_a.avg = blk_b.avg

\* a third block was accepted whose Max RSS line came first and whose Wall
\* Clock Time line came last in the other order
C12_Witness ==
    /\ blk_k >= 3
    /\ blk_a.ret
    /\ blk_x # blk_y
    /\ LineLabel(blk_x[1]) = "Wall Clock Time:"
    /\ LineLabel(blk_y[1]) = "Max RSS:"
    /\ LineLabel(blk_y[5]) = "Wall Clock Time:"
    /\ blk_a.avg.wall_clock # blk_a.out.wall_clock

\* the eight titles of the aggregate report, in its order
ReportTitles == <<"Load Model", "Read Image (Red Box)", "Red Box", "Read Image (Green Box)",
                  "Inference", "Postprocessing", "Green Box", "Total">>

\* the printed averages of phase p under the given title
ReportEntry(title, p) ==
    [name |-> title, wall_clock |-> Fixed(avg[p].wall_clock, 3),
     user_time |-> Fixed(avg[p].user_time, 3), system_time |-> Fixed(avg[p].system_time, 3),
     cpu_usage |-> Fixed(avg[p].cpu_usage, 2), max_rss |-> LongText(avg[p].max_rss)]

\* file is the aggregate report of the present averages and nothing else:
\* eight phases in the fixed order, each followed by a blank line
IsAggregateReport(file) ==
    /\ Len(file) = 16
    /\ \A k \in 1..8 :
         /\ file[2 * k - 1] = ReportEntry(ReportTitles[k], PhaseOrder[k])
         /\ file[2 * k] = [name |-> "", blank |-> TRUE]

\* C13 as stated: when the run completes stats_summary.txt holds the aggregate
\* report, which replaced the last iteration's raw output.
C13_FinalContentIsReport ==
    Exited(0) => IsAggregateReport(scratch)

\* C13 amended: when the run completes and save_metrics_stats could open the
\* file, stats_summary.txt holds the aggregate report of the final averages
\* and nothing else; when it could not, the file keeps the last raw output.
C13_FinalContentIsReportIfOpened ==
    Exited(0) => IF stats_saved THEN IsAggregateReport(scratch)
                 ELSE scratch \in Outputs /\ ~IsAggregateReport(scratch)

\* a completed run whose last output held blocks of two phases and whose
\* report was written over it
C13_Witness ==
    /\ Exited(0)
    /\ stats_saved
    /\ IsAggregateReport(scratch)
    /\ avg["loadmodel"].wall_clock # FZero
    /\ avg["total"].wall_clock # FZero
    /\ avg["total"] # avg["loadmodel"]

\* C14: iterations are sequential. A command is started only between
\* iterations, one at a time, when no scan is under way; a scan is left only at
\* the end of the file, for the next iteration; and a block is recorded only
\* from the file that the command of the current iteration wrote, after that
\* command returned with success and before any later command was started.
C14_IterationsSequential ==
    [][/\ Len(runs') > Len(runs) =>
            /\ pc = "loop" /\ fp = 0
            /\ Len(runs') = Len(runs) + 1
            /\ scratch_of' = i
       /\ (pc = "scan" /\ pc' # "scan") =>
            /\ fp > Len(scratch)
            /\ pc' = "loop" /\ i' = i + 1
       /\ \A p \in Phases : Len(seen'[p]) > Len(seen[p]) =>
            /\ seen'[p][Len(seen'[p])].iter = i
            /\ scratch_of = i
            /\ Len(runs) = i
            /\ runs[i].iter = i /\ runs[i].status = 0
            /\ scratch' = scratch /\ runs' = runs]_vars

\* a completed run that recorded a sample in iteration 1 and another sample
\* in iteration 2, read from another output
C14_Witness ==
    /\ Exited(0)
    /\ Len(seen["inference"]) = 2
    /\ seen["inference"][1].iter = 1
    /\ seen["inference"][2].iter = 2
    /\ seen["inference"][1].out # seen["inference"][2].out

\* the units that denote microseconds
MicroUnits == {UnitMicro, UnitMicroseconds}

\* the number that the line of x holds, as a float
NumberOf(x) == ScanFloat(x.num, 1).val

\* the value in milliseconds a time line of x stands for
Milliseconds(x) ==
    IF x.unit \in {UnitS, UnitSec} THEN FloatMul(NumberOf(x), IntToFloat(1000))
    ELSE IF x.unit \in MicroUnits THEN FloatDiv(NumberOf(x), IntToFloat(1000))
    ELSE NumberOf(x)

\* C15: a Wall Clock Time, User time or System time value is normalized to
\* milliseconds: times 1000 for unit s or sec, divided by 1000 for a unit that
\* denotes microseconds, unscaled without unit or with ms; CPU Usage and Max
\* RSS are never scaled, whatever follows the number.
C15_TimeNormalizedByUnit ==
    (unit_out.found = 1 /\ unit_in.unit \in {<<>>, UnitMs, UnitS, UnitSec} \cup MicroUnits) =>
        /\ unit_in.label = "Wall Clock Time:" => unit_out.out.wall_clock = Milliseconds(unit_in)
        /\ unit_in.label = "User time:" => unit_out.out.user_time = Milliseconds(unit_in)
        /\ unit_in.label = "System time:" => unit_out.out.system_time = Milliseconds(unit_in)
        /\ unit_in.label = "CPU Usage:" => unit_out.out.cpu_usage = NumberOf(unit_in)
        /\ unit_in.label = "Max RSS:" => unit_out.out.max_rss = Atol(unit_in.num)

\* the number of well-formed blocks among the first n recorded for phase p
SamplesBefore(p, n) == Cardinality({j \in 1..n : HasAllFields(seen[p][j])})

\* C16: the count with which a block is merged into its phase's average is the
\* 1-based index of that sample in its phase: the samples of the phase seen
\* before it, plus one.
C16_CountIsSampleIndex ==
    \A p \in Phases : \A k \in 1..Len(seen[p]) :
        seen[p][k].count = SamplesBefore(p, k - 1) + 1

\* the header of phase p occurs in a line of the captured output
HeaderOccurs(p) == \E k \in 1..Len(scratch) : Contains(scratch[k], HeaderOf[p])

\* a step that changes the average or the CSV file of phase p parses a block
\* found under p's header and changes those of no other phase
ChangesOnlyAsBlockOf(p) ==
    (avg'[p] # avg[p] \/ csv'[p] # csv[p]) =>
        /\ pc = "scan"
        /\ fp <= Len(scratch)
        /\ MatchedPhase(scratch[fp]) = p
        /\ HeaderOccurs(p)
        /\ \A q \in Phases \ {p} : avg'[q] = avg[q] /\ csv'[q] = csv[q]

\* C17: during the iterations a phase's average and CSV file change only in
\* the step that parses a block found under that phase's header; a block of
\* one phase leaves the other seven phases' averages and CSV files as they
\* were, and a phase whose header is not in the output is left unchanged.
C17_OnlyTheHeadersPhaseChanges ==
    [][(pc \in {"loop", "open_scratch", "scan"}) =>
         \A p \in Phases : ChangesOnlyAsBlockOf(p)]_vars

\* a run ended in which blocks of Load Model and Total were recorded and
\* every other phase was left with its header row and zero average
C17_Witness ==
    /\ Exited(0)
    /\ Len(csv["loadmodel"]) > Len(csv_before["loadmodel"]) + 1
    /\ Len(csv["total"]) > Len(csv_before["total"]) + 1
    /\ avg["loadmodel"] # ZeroMetrics
    /\ avg["total"] # ZeroMetrics
    /\ \A q \in Phases \ {"loadmodel", "total"} :
          csv[q] = Append(csv_before[q], CsvHeader) /\ avg[q] = ZeroMetrics

\* the block parser was called for phase p, in this iteration, on the lines from k on
ParserInvokedAt(p, k) ==
    \E n \in 1..Len(seen[p]) : seen[p][n].iter = i /\ seen[p][n].start = k

\* the lines read by the call recorded in e hold no header: each metric line
\* among them has the header before the call's first line as nearest header
NoHeaderWithin(e) ==
    \A j \in e.start..e.last : j <= Len(scratch) => MatchedPhase(scratch[j]) = "none"

\* C18: in a captured output that is being scanned, every line read so far
\* that holds a phase header made the block parser start for that phase at
\* the next line, and every metric line was merged only into the phase of the
\* nearest header line before it, also when a block has no terminator line
\* before the next header.
C18_EveryHeaderStartsItsParser ==
    pc = "scan" =>
        /\ \A k \in 1..(fp - 1) :
              (k <= Len(scratch) /\ MatchedPhase(scratch[k]) # "none")
                 => ParserInvokedAt(MatchedPhase(scratch[k]), k + 1)
        /\ \A p \in Phases : \A n \in 1..Len(seen[p]) :
              seen[p][n].iter = i => NoHeaderWithin(seen[p][n])

\* the file handles the benchmark holds open: its CSV files and scratch-file handles
OpenHandles == Cardinality(csv_open) + open_fps

\* C19: the benchmark never holds more than nine file handles (the eight CSV
\* files and one handle on the scratch file), and the handle opened in an
\* iteration is closed before the next iteration begins.
C19_AtMostNineHandles ==
    /\ OpenHandles <= 9
    /\ pc = "loop" => open_fps = 0

\* the steps of the build program, in their order
BuildSteps == <<"remove old binaries", "build wasm module", "move wasm module",
                "build wasmtime wrapper", "move wasmtime wrapper">>

IsBuildStep(e) == e.step # "chdir"

\* the steps and commands made so far, changes of directory left out
StepsDone == SelectSeq(tool_log, IsBuildStep)

\* the k-th step made is the one that failed
FailedAt(k) == StepsDone[k].status # 0

\* C20: the build program makes its steps in the fixed order; in it and in the
\* command runner a command that returns non-zero is the last step made and
\* the process ends at once with failure status; so an artifact is moved
\* only after its build command succeeded, and a program that returns 0 made
\* every step with success.
C20_FixedOrderStopAtFailure ==
    /\ \A k \in 1..Len(StepsDone) :
          /\ tool = "build" => k <= 5 /\ StepsDone[k].step = BuildSteps[k]
          /\ tool = "runner" => k <= number_iterations /\ StepsDone[k].step = "command"
          /\ FailedAt(k) => k = Len(StepsDone) /\ tool_pc = "exit" /\ tool_exit = 1
          /\ StepsDone[k].step \in {"move wasm module", "move wasmtime wrapper"}
                => ~FailedAt(k - 1) /\ StepsDone[k - 1].step = BuildSteps[k - 1]
    /\ (tool = "build" /\ tool_exit = 0) =>
          Len(StepsDone) = 5 /\ \A k \in 1..5 : ~FailedAt(k)
    /\ (tool = "runner" /\ tool_exit = 0) =>
          \/ number_iterations <= 0 /\ StepsDone = <<>>
          \/ Len(StepsDone) = number_iterations /\ \A k \in 1..Len(StepsDone) : ~FailedAt(k)
    /\ (tool # "none" /\ tool_exit = 1) =>
          \/ tool = "runner" /\ Argc < 3 /\ tool_log = <<>>
          \/ Len(StepsDone) >= 1 /\ FailedAt(Len(StepsDone))

\* the build ended with failure when the wrapper did not compile, after the
\* wasm module had been built and moved
C20_Witness ==
    /\ tool = "build"
    /\ tool_exit = 1
    /\ Len(StepsDone) = 4
    /\ StepsDone[3] = [step |-> "move wasm module", status |-> 0]
    /\ StepsDone[4] = [step |-> "build wasmtime wrapper", status |-> 1]
    /\ "wasmtime-test" \notin tool_files

====
